---------------------------- MODULE Spec2Model ----------------------------
(***************************************************************************)
(* NOT10: the round state machine (game.js), the AI policy (ai.js) and the *)
(* solitary (vs-AI) session controller (app.js), as a state machine.       *)
(*                                                                         *)
(* Players are identified by their seat index: the human sits at seat 0    *)
(* and the three AI players ai_1..ai_3 at seats 1..3.                      *)
(***************************************************************************)
EXTENDS Integers, Sequences, FiniteSets, TLC

VARIABLES
    room,           \* appState.room: phase, turn_player_id, table_total, pot_cents, ...
    players,        \* appState.players: seat -> [money_cents, status]
    roundState,     \* appState.roundState: bets_json, flags, played_count, log_json
    hands,          \* appState.myHand (seat 0) and aiPlayer.hand (seats 1..3)
    aiLoop,         \* the periodic AI loop: isProcessing flag and the turn in flight
    roundEndTimers, \* handleAIRoundEnd calls started by the human's busts, still sleeping
    store,          \* the Supabase rows of shared mode: players, rooms, round_state
    sharedCall,     \* the shared-mode processBet call in flight, between its awaits
    clients         \* shared mode with several participants: each one's appState and call

vars == <<room, players, roundState, hands, aiLoop, roundEndTimers, store, sharedCall, clients>>

---------------------------------------------------------------------------
(* Game constants                                                          *)

STARTING_MONEY == 100000
MAX_PLAYERS == 4
BUST_THRESHOLD == 10
RAISE_AMOUNTS == {10000, 20000, 50000}
MIN_BET == 10000

(* Bounds of the model                                                     *)

\* entries of each kind the round's event log may hold per player: accepted
\* bets (raise, bet, call, all-in), accepted finalizes and accepted card plays
MaxBets == 2
MaxFinalizes == 2
MaxPlays == 2

Players == 0 .. (MAX_PLAYERS - 1)
Human == 0
AIs == Players \ {Human}
Cards == 0 .. 3

\* the card values the human's card intent is tried with
HumanCards == {3}

\* roundState.log_json, kept as the number of entries of each kind that
\* name each player: "bet" stands for the types raise, bet and all-in;
\* round_end entries name the eliminated player
LogKinds == {"bet", "call", "finalize", "play_order", "play_card", "round_end"}

push(log, kind, playerId) == [log EXCEPT ![kind][playerId] = @ + 1]

\* the entries of a player's bets, raises, calls and all-ins
betEntries(log, playerId) == log.bet[playerId] + log.call[playerId]

\* the values, in hundredths, a call of Math.random() is drawn from
Rolls == {45, 65}

\* amounts the human's bet intent is tried with: one of the raise buttons
\* and one amount that is on no button
HumanAmounts == {10000, 30000}

personality(p) ==
    CASE p = 1 -> "cautious"
      [] p = 2 -> "balanced"
      [] OTHER -> "aggressive"

\* the deals the model starts from: four 4-card hands out of the 40-card
\* deck (ten cards of each value)
Deals ==
    { [p \in Players |-> CASE p = 0 -> <<3, 2, 1, 0>>
                           [] p = 1 -> <<3, 3, 3, 2>>
                           [] p = 2 -> <<3, 3, 3, 3>>
                           [] OTHER -> <<3, 3, 2, 2>>] }

---------------------------------------------------------------------------
(* Helpers                                                                 *)

Range(f) == {f[x] : x \in DOMAIN f}

MaxOf(S) == CHOOSE x \in S : \A y \in S : y <= x

MinOf(S) == CHOOSE x \in S : \A y \in S : x <= y

RECURSIVE SumOver(_, _)
SumOver(f, S) ==
    IF S = {} THEN 0
    ELSE LET x == CHOOSE y \in S : TRUE IN f[x] + SumOver(f, S \ {x})

\* the filter letting every player through, spectators too
activeSeatsOfAnyStatus(pl) == {p \in Players : pl[p].status \in {"active", "spectator"}}

\* players.filter(p => p.status === 'active'), as the set of their seats
activeSeats(pl) == {p \in Players : pl[p].status = "active"}

\* the same filter in array order (the players array is in seat order)
RECURSIVE seatList(_, _)
seatList(S, from) ==
    IF from >= MAX_PLAYERS THEN <<>>
    ELSE IF from \in S THEN <<from>> \o seatList(S, from + 1)
    ELSE seatList(S, from + 1)

\* Math.max(0, ...Object.values(bets))
tableHighestBet(bets) == MaxOf({0} \cup Range(bets))

\* utils.getNextPlayerIndex(currentIndex, players): next active seat clockwise
RECURSIVE nextIndexFrom(_, _, _)
nextIndexFrom(nextIndex, iterations, pl) ==
    IF iterations >= MAX_PLAYERS THEN -1
    ELSE IF pl[nextIndex].status = "active" THEN nextIndex
    ELSE nextIndexFrom((nextIndex + 1) % MAX_PLAYERS, iterations + 1, pl)

getNextPlayerIndex(currentIndex, pl) ==
    IF activeSeats(pl) = {} THEN -1
    ELSE nextIndexFrom((currentIndex + 1) % MAX_PLAYERS, 0, pl)

\* utils.getPlayersInTurnOrder(players, startIndex)
getPlayersInTurnOrder(pl, startIndex) ==
    LET activePlayers == seatList(activeSeats(pl), 0)
    IN IF startIndex \notin activeSeats(pl) THEN activePlayers
       ELSE seatList(activeSeats(pl), startIndex)
            \o SelectSeq(activePlayers, LAMBDA s : s < startIndex)

\* betting taken as complete as soon as one active player has finalized
isBettingCompleteOnFirstFinalize(pl, finalized) ==
    \E p \in activeSeats(pl) : p \in DOMAIN finalized /\ finalized[p]

\* game.isBettingComplete(activePlayers, bets, finalized); a finalized map
\* that is missing, or has no entry for the player, gives a falsy flag
isBettingComplete(pl, finalized) ==
    \A p \in activeSeats(pl) : p \in DOMAIN finalized /\ finalized[p]

\* game.getNextBettingPlayer(activePlayers, currentSeatIndex, finalized_json);
\* -1 stands for null
RECURSIVE nextBettingFrom(_, _, _, _)
nextBettingFrom(nextIndex, attempts, pl, finalized) ==
    IF attempts >= Cardinality(activeSeats(pl)) THEN -1
    ELSE LET n == getNextPlayerIndex(nextIndex, pl)
         IN IF n # -1 /\ ~finalized[n] THEN n
            ELSE IF n = -1 THEN -1
            ELSE nextBettingFrom(n, attempts + 1, pl, finalized)

getNextBettingPlayer(pl, currentSeatIndex, finalized) ==
    nextBettingFrom(currentSeatIndex, 0, pl, finalized)

---------------------------------------------------------------------------
(* game.processBet: the result record carries the return value's success   *)
(* and action together with the objects as the call leaves them.           *)

\* the result with game.resetBettingPhase applied once a finalize succeeds
betResultWithReset(ok, action, rm, pl, rs) ==
    [success |-> ok, action |-> action, room |-> rm, players |-> pl,
     roundState |-> IF ok /\ action = "finalize"
                    THEN [rs EXCEPT !.bets_json = [p \in Players |-> 0],
                                    !.has_raised_json = [p \in Players |-> FALSE]]
                    ELSE rs]

\* every request reported as accepted
betResultAlwaysSuccess(ok, action, rm, pl, rs) ==
    [success |-> TRUE, action |-> action, room |-> rm, players |-> pl, roundState |-> rs]

betResult(ok, action, rm, pl, rs) ==
    [success |-> ok, action |-> action, room |-> rm, players |-> pl, roundState |-> rs]

processBet(rm, pl, rs, playerId, action, amount) ==
    LET player == pl[playerId]
        bets == rs.bets_json
        currentPlayerBet == bets[playerId]
        highest == tableHighestBet(bets)
        fail == betResult(FALSE, action, rm, pl, rs)
    IN
    IF player.status # "active" THEN fail
    ELSE IF action = "finalize" THEN
        IF ~rs.has_bet_json[playerId] THEN fail
        ELSE IF currentPlayerBet < MIN_BET /\ player.money_cents > 0 THEN fail
        ELSE betResult(TRUE, "finalize", rm, pl,
                       [rs EXCEPT !.finalized_json[playerId] = TRUE,
                                  !.log_json = push(@, "finalize", playerId)])
    ELSE IF action = "bet" THEN
        IF amount \notin RAISE_AMOUNTS /\ amount # player.money_cents THEN fail
        ELSE IF player.money_cents < amount THEN fail
        ELSE LET newPlayerBet == currentPlayerBet + amount
                 isRaise == newPlayerBet > highest
             IN betResult(TRUE, IF isRaise THEN "raise" ELSE "bet",
                    [rm EXCEPT !.pot_cents = @ + amount],
                    [pl EXCEPT ![playerId].money_cents = @ - amount],
                    [rs EXCEPT !.bets_json[playerId] = newPlayerBet,
                               !.has_raised_json[playerId] = @ \/ isRaise,
                               !.has_bet_json[playerId] = TRUE,
                               !.log_json = push(@, "bet", playerId)])
    ELSE IF action = "call" THEN
        LET diff == highest - currentPlayerBet
            callAmount == IF diff > 0 THEN diff ELSE 0
        IN IF callAmount > 0 /\ player.money_cents < callAmount THEN fail
           ELSE betResult(TRUE, "call",
                    [rm EXCEPT !.pot_cents = @ + callAmount],
                    [pl EXCEPT ![playerId].money_cents = @ - callAmount],
                    [rs EXCEPT !.bets_json[playerId] =
                                    IF callAmount > 0 THEN highest ELSE @,
                               !.has_bet_json[playerId] = TRUE,
                               !.log_json = push(@, "call", playerId)])
    ELSE IF action = "all-in" THEN
        LET allInAmount == player.money_cents
            newPlayerBet == currentPlayerBet + allInAmount
            isRaise == newPlayerBet > highest
        IN IF allInAmount = 0 THEN fail
           ELSE betResult(TRUE, "all-in",
                    [rm EXCEPT !.pot_cents = @ + allInAmount],
                    [pl EXCEPT ![playerId].money_cents = 0],
                    [rs EXCEPT !.bets_json[playerId] = newPlayerBet,
                               !.has_raised_json[playerId] = @ \/ isRaise,
                               !.has_bet_json[playerId] = TRUE,
                               !.log_json = push(@, "bet", playerId)])
    ELSE fail

\* the error of the result of game.processBet, "none" when it has none
betError(pl, rs, playerId, action, amount) ==
    LET player == pl[playerId]
        currentPlayerBet == rs.bets_json[playerId]
        highest == tableHighestBet(rs.bets_json)
    IN
    IF player.status # "active" THEN "Player not active"
    ELSE IF action = "finalize" THEN
        IF ~rs.has_bet_json[playerId]
        THEN "You must place at least one bet before finalizing."
        ELSE IF currentPlayerBet < MIN_BET /\ player.money_cents > 0
        THEN "Minimum bet is $100. Please bet or go all-in."
        ELSE "none"
    ELSE IF action = "bet" THEN
        IF amount \notin RAISE_AMOUNTS /\ amount # player.money_cents
        THEN "Invalid bet amount"
        ELSE IF player.money_cents < amount THEN "Insufficient funds"
        ELSE "none"
    ELSE IF action = "call" THEN
        IF highest - currentPlayerBet > 0 /\ player.money_cents < highest - currentPlayerBet
        THEN "Insufficient funds to call - use ALL-IN instead"
        ELSE "none"
    ELSE IF action = "all-in" THEN
        IF player.money_cents = 0 THEN "No money to go all-in" ELSE "none"
    ELSE "Invalid action"

---------------------------------------------------------------------------
(* game.transitionToPlaying: the room and round state as the call leaves   *)
(* them.  The function returns nothing.                                    *)

\* the comparison taken as >=: the last player holding the highest bet
highestBettorIdLastFound(pl, bets) ==
    LET act == activeSeats(pl)
        top == MaxOf({0} \cup {bets[p] : p \in act})
    IN IF top = 0 THEN -1
       ELSE MaxOf({p \in act : bets[p] = top})

\* the first player, in array order, whose bet is the highest; -1 for null
highestBettorId(pl, bets) ==
    LET act == activeSeats(pl)
        top == MaxOf({0} \cup {bets[p] : p \in act})
    IN IF top = 0 THEN -1
       ELSE MinOf({p \in act : bets[p] = top})

transitionToPlaying(rm, pl, rs) ==
    LET bets == rs.bets_json
        hb == highestBettorId(pl, bets)
        ordered == getPlayersInTurnOrder(pl, rm.starting_player_index)
        moved == hb # -1 /\ ordered[Len(ordered)] # hb
        orderedPlayers ==
            IF moved THEN SelectSeq(ordered, LAMBDA s : s # hb) \o <<hb>>
            ELSE ordered
    IN [room |-> [rm EXCEPT !.phase = "playing",
                            !.turn_player_id = orderedPlayers[1]],
        roundState |-> IF moved THEN [rs EXCEPT !.log_json = push(@, "play_order", hb)]
                       ELSE rs]

---------------------------------------------------------------------------
(* IEEE-754 double arithmetic of the share formula.  JavaScript numbers    *)
(* are doubles: Math.floor(pot * (bet / total)) rounds the quotient to 53  *)
(* significant bits (nearest, ties to even), then rounds the product to 53 *)
(* bits, then floors.  Significands are kept as sequences of 12-bit limbs, *)
(* least significant first.                                                *)

MANTISSA_BITS == 53
LIMB == 4096

\* the e with t <= x * 2^e < 2 * t, for 0 < x
RECURSIVE exponentOf(_, _)
exponentOf(x, t) == IF x >= t THEN 0 ELSE 1 + exponentOf(2 * x, t)

pow2(n) ==
    <<1, 2, 4, 8, 16, 32, 64, 128, 256, 512, 1024, 2048, 4096, 8192, 16384,
      32768, 65536, 131072, 262144, 524288, 1048576, 2097152, 4194304,
      8388608, 16777216>>[n + 1]

\* ls + 1; the top limb takes the last carry
incLimbs(ls) ==
    LET k == CHOOSE i \in 1 .. Len(ls) :
                /\ i = Len(ls) \/ ls[i] < LIMB - 1
                /\ \A j \in 1 .. (i - 1) : ls[j] = LIMB - 1
    IN [i \in 1 .. Len(ls) |-> IF i < k THEN 0 ELSE IF i = k THEN ls[i] + 1 ELSE ls[i]]

\* the double nearest to x / t, for 0 < x < t: the significand m, 2^52 <= m
\* <= 2^53, and the exponent e, the value being m * 2^-(52 + e).  The
\* quotient's 52 fraction bits come by long division, one 4-bit digit and
\* four limbs; the remainder decides the rounding.
doubleDiv(x, t) ==
    LET e == exponentOf(x, t)
        r0 == x * pow2(e) - t
        h == (16 * r0) \div t
        r1 == (16 * r0) % t
        d1 == (LIMB * r1) \div t
        r2 == (LIMB * r1) % t
        d2 == (LIMB * r2) \div t
        r3 == (LIMB * r2) % t
        d3 == (LIMB * r3) \div t
        r4 == (LIMB * r3) % t
        d4 == (LIMB * r4) \div t
        r5 == (LIMB * r4) % t
        roundUp == 2 * r5 > t \/ (2 * r5 = t /\ d4 % 2 = 1)
        m == <<d4, d3, d2, d1, 16 + h>>
    IN [m |-> IF roundUp THEN incLimbs(m) ELSE m, e |-> e]

\* the limbs of ls * c + carry, from limb i on
RECURSIVE mulFrom(_, _, _, _)
mulFrom(ls, i, c, carry) ==
    IF i > Len(ls) THEN <<carry % LIMB, carry \div LIMB>>
    ELSE <<(ls[i] * c + carry) % LIMB>>
         \o mulFrom(ls, i + 1, c, (ls[i] * c + carry) \div LIMB)

bit(ls, i) == (ls[(i \div 12) + 1] \div pow2(i % 12)) % 2

\* the number of significant bits of v, 0 < v < 2^24
width(v) == Cardinality({b \in 0 .. 23 : pow2(b) <= v})

\* the number of significant bits of ls, a non-zero number
bitLength(ls) ==
    LET top == MaxOf({k \in 1 .. Len(ls) : ls[k] # 0})
    IN 12 * (top - 1) + width(ls[top])

\* ls \div 2^s, a number that fits the integers
shiftRight(ls, s) ==
    LET a == s \div 12
        b == s % 12
        term(k) == IF k = a + 1 THEN ls[k] \div pow2(b)
                   ELSE IF ls[k] = 0 THEN 0
                   ELSE ls[k] * pow2(12 * (k - a - 1) - b)
    IN SumOver([k \in 1 .. Len(ls) |-> IF k <= a THEN 0 ELSE term(k)], 1 .. Len(ls))

\* Math.floor(pot * (x / t)) for 0 <= x <= t, 0 < t, 0 <= pot.  With n the
\* floor of the exact product p * 2^-s of pot and the rounded quotient, the
\* rounded product reaches n + 1 exactly when p has more than 53 bits and
\* lies within half a unit of its last kept bit below (n + 1) * 2^s, that
\* is when every bit of p from that half unit up to bit s - 1 is set.
floorShare(pot, x, t) ==
    IF x = 0 \/ pot = 0 THEN 0
    ELSE IF x = t THEN pot
    ELSE LET q == doubleDiv(x, t)
             p == mulFrom(q.m, 1, pot, 0)
             s == (MANTISSA_BITS - 1) + q.e
             len == bitLength(p)
             n == shiftRight(p, s)
         IN IF /\ len > MANTISSA_BITS
               /\ \A i \in (len - MANTISSA_BITS - 1) .. (s - 1) : bit(p, i) = 1
            THEN n + 1
            ELSE n

---------------------------------------------------------------------------
(* game.processCardPlay                                                    *)

cardResult(ok, bust, rm, rs) ==
    [success |-> ok, bust |-> bust, room |-> rm, roundState |-> rs]

\* processCardPlay with the table total updated before the turn is verified
processCardPlayTotalFirst(rm, pl, rs, playerId, cardValue) ==
    LET newTotal == rm.table_total + cardValue
        added == [rm EXCEPT !.table_total = newTotal]
        played == [rs EXCEPT !.log_json = push(@, "play_card", playerId),
                            !.played_count = @ + 1]
        nextPlayerIndex == getNextPlayerIndex(playerId, pl)
    IN
    IF pl[playerId].status # "active" THEN cardResult(FALSE, FALSE, rm, rs)
    ELSE IF rm.turn_player_id # playerId THEN cardResult(FALSE, FALSE, added, rs)
    ELSE IF newTotal >= BUST_THRESHOLD THEN cardResult(TRUE, TRUE, added, played)
    ELSE cardResult(TRUE, FALSE,
                    [added EXCEPT !.turn_player_id =
                                    IF nextPlayerIndex # -1 THEN nextPlayerIndex ELSE @],
                    played)

processCardPlay(rm, pl, rs, playerId, cardValue) ==
    LET newTotal == rm.table_total + cardValue
        played == [rs EXCEPT !.log_json = push(@, "play_card", playerId),
                            !.played_count = @ + 1]
        nextPlayerIndex == getNextPlayerIndex(playerId, pl)
    IN
    IF pl[playerId].status # "active" THEN cardResult(FALSE, FALSE, rm, rs)
    ELSE IF rm.turn_player_id # playerId THEN cardResult(FALSE, FALSE, rm, rs)
    ELSE IF newTotal >= BUST_THRESHOLD
         THEN cardResult(TRUE, TRUE, [rm EXCEPT !.table_total = newTotal], played)
    ELSE cardResult(TRUE, FALSE,
                    [rm EXCEPT !.table_total = newTotal,
                               !.turn_player_id =
                                    IF nextPlayerIndex # -1 THEN nextPlayerIndex ELSE @],
                    played)

\* hand.indexOf(cardValue) / splice: the first card of that value leaves the hand
removeCard(hand, cardValue) ==
    IF \E i \in 1 .. Len(hand) : hand[i] = cardValue
    THEN LET index == MinOf({i \in 1 .. Len(hand) : hand[i] = cardValue})
         IN SubSeq(hand, 1, index - 1) \o SubSeq(hand, index + 1, Len(hand))
    ELSE hand

---------------------------------------------------------------------------
(* game.endRound: the objects as the call leaves them.  The return         *)
(* statement reads the undeclared names perPlayer and remainder, so the    *)
(* call ends by throwing a ReferenceError after these updates.             *)

RECURSIVE SumSeq(_)
SumSeq(q) == IF q = <<>> THEN 0 ELSE q[1] + SumSeq(Tail(q))

\* the loop over the survivors without the remainder rule: the last survivor
\* gets a floored share like the others
sharesAllFloored(pot, survivorBets, totalSurvivorBets, i, totalDistributed) ==
    [j \in 1 .. (Len(survivorBets) - i + 1) |->
        IF totalSurvivorBets = 0 THEN pot \div Len(survivorBets)
        ELSE floorShare(pot, survivorBets[i + j - 1], totalSurvivorBets)]

\* the loop over the survivors: potDistributions from survivor i on, with
\* totalDistributed so far
RECURSIVE sharesFrom(_, _, _, _, _)
sharesFrom(pot, survivorBets, totalSurvivorBets, i, totalDistributed) ==
    IF i > Len(survivorBets) THEN <<>>
    ELSE IF i = Len(survivorBets) THEN <<pot - totalDistributed>>
    ELSE LET share == IF totalSurvivorBets = 0 THEN pot \div Len(survivorBets)
                      ELSE floorShare(pot, survivorBets[i], totalSurvivorBets)
         IN <<share>> \o sharesFrom(pot, survivorBets, totalSurvivorBets, i + 1,
                                     totalDistributed + share)

\* the pot split equally among the survivors, whatever they bet
potSharesEqually(pot, survivorBets) ==
    [i \in 1 .. Len(survivorBets) |->
        IF i = Len(survivorBets)
        THEN pot - (Len(survivorBets) - 1) * (pot \div Len(survivorBets))
        ELSE pot \div Len(survivorBets)]

\* the shares in survivor order: potDistributions
potShares(pot, survivorBets) ==
    sharesFrom(pot, survivorBets, SumSeq(survivorBets), 1, 0)

\* endRound without the reset of the pot
endRoundKeepsPot(rm, pl, rs, eliminatedPlayerId) ==
    LET survivors == seatList(activeSeats(pl) \ {eliminatedPlayerId}, 0)
        shares == potShares(rm.pot_cents, [i \in 1 .. Len(survivors) |->
                                                rs.bets_json[survivors[i]]])
        shareOf(p) == shares[CHOOSE i \in 1 .. Len(survivors) : survivors[i] = p]
    IN [room |-> [rm EXCEPT !.phase = "round_end",
                            !.starting_player_index = (@ + 1) % MAX_PLAYERS],
        players |-> [p \in Players |->
                        IF \E i \in 1 .. Len(survivors) : survivors[i] = p
                        THEN [pl[p] EXCEPT !.money_cents = @ + shareOf(p)]
                        ELSE pl[p]],
        roundState |-> [rs EXCEPT !.log_json = push(@, "round_end", eliminatedPlayerId)]]

endRound(rm, pl, rs, eliminatedPlayerId) ==
    LET survivors == seatList(activeSeats(pl) \ {eliminatedPlayerId}, 0)
        shares == potShares(rm.pot_cents, [i \in 1 .. Len(survivors) |->
                                                rs.bets_json[survivors[i]]])
        shareOf(p) == shares[CHOOSE i \in 1 .. Len(survivors) : survivors[i] = p]
    IN [room |-> [rm EXCEPT !.phase = "round_end",
                            !.pot_cents = 0,
                            !.starting_player_index = (@ + 1) % MAX_PLAYERS],
        players |-> [p \in Players |->
                        IF \E i \in 1 .. Len(survivors) : survivors[i] = p
                        THEN [pl[p] EXCEPT !.money_cents = @ + shareOf(p)]
                        ELSE pl[p]],
        roundState |-> [rs EXCEPT !.log_json = push(@, "round_end", eliminatedPlayerId)]]

---------------------------------------------------------------------------
(* AI policy (ai.js).  Math.random() is an input: every call draws a value, *)
(* in hundredths, from Rolls, and each function is the set of values the    *)
(* code can return over those draws.                                        *)

\* options[Math.floor(Math.random() * options.length)]
pick(options, r) == options[((r * Len(options)) \div 100) + 1]

safeCount(hand, tableTotal) ==
    Cardinality({i \in 1 .. Len(hand) : tableTotal + hand[i] < BUST_THRESHOLD})

lowCount(hand) == Cardinality({i \in 1 .. Len(hand) : hand[i] <= 1})

\* evaluateHandStrength(tableTotal) > thr / 100.  The strength is
\* (safe / n) * 0.6 + (low / n) * 0.4 in doubles: for hands of up to six
\* cards the comparison agrees with the exact one except that 2/4 * 0.6 +
\* 3/4 * 0.4 evaluates to 0.6000000000000001.
strengthAbove(hand, tableTotal, thr) ==
    LET n == Len(hand)
        s == safeCount(hand, tableTotal)
        l == lowCount(hand)
    IN IF n = 0 THEN FALSE
       ELSE \/ (6 * s + 4 * l) * 10 > thr * n
            \/ (n = 4 /\ s = 2 /\ l = 3 /\ thr = 60)

\* evaluateHandStrength(tableTotal) < 0.5
strengthBelowHalf(hand, tableTotal) ==
    LET n == Len(hand)
    IN IF n = 0 THEN TRUE
       ELSE (6 * safeCount(hand, tableTotal) + 4 * lowCount(hand)) * 10 < 50 * n

raise(amount) == [action |-> "raise", amount |-> amount]
call == [action |-> "call", amount |-> 0]

cautiousBetting(hasRaised, hand, tableTotal) ==
    IF ~hasRaised THEN {raise(10000)}
    ELSE IF strengthBelowHalf(hand, tableTotal) THEN {call}
    ELSE IF strengthAbove(hand, tableTotal, 70)
         THEN {IF r < 20 THEN raise(10000) ELSE call : r \in Rolls}
    ELSE {call}

balancedBetting(hasRaised, hand, tableTotal) ==
    IF ~hasRaised
    THEN IF strengthAbove(hand, tableTotal, 70)
         THEN {raise(IF r < 50 THEN 20000 ELSE 10000) : r \in Rolls}
         ELSE {raise(10000)}
    ELSE IF strengthAbove(hand, tableTotal, 60)
         THEN {IF r[1] < 40 THEN raise(pick(<<10000, 20000>>, r[2])) ELSE call :
                    r \in Rolls \X Rolls}
    ELSE {call}

aggressiveBetting(hasRaised, hand, tableTotal) ==
    IF ~hasRaised
    THEN {IF r[2] < 30 THEN raise(50000) ELSE raise(pick(<<20000, 50000>>, r[1])) :
                r \in Rolls \X Rolls}
    ELSE {IF r[1] < 60 THEN raise(pick(<<10000, 20000, 50000>>, r[2])) ELSE call :
                r \in Rolls \X Rolls}

chooseBetAction(ai, rs, hand, tableTotal) ==
    LET hasRaisedOnce == rs.has_raised_json[ai]
    IN CASE personality(ai) = "cautious" -> cautiousBetting(hasRaisedOnce, hand, tableTotal)
         [] personality(ai) = "aggressive" -> aggressiveBetting(hasRaisedOnce, hand, tableTotal)
         [] OTHER -> balancedBetting(hasRaisedOnce, hand, tableTotal)

\* the chance, in hundredths, that an AI finalizes a bet that does not match
finalizeChance(ai) ==
    CASE personality(ai) = "cautious" -> 70
      [] personality(ai) = "aggressive" -> 40
      [] OTHER -> 50

shouldFinalizeBet(ai, rs) ==
    LET myBet == rs.bets_json[ai]
        highestBet == tableHighestBet(rs.bets_json)
    IN IF myBet = highestBet /\ highestBet > 0 THEN {TRUE}
       ELSE {r < finalizeChance(ai) : r \in Rolls}

\* the hand strength an AI needs to call when the call is (nearly) all-in
allInThreshold(ai) ==
    CASE personality(ai) = "cautious" -> 85
      [] personality(ai) = "aggressive" -> 50
      [] OTHER -> 70

\* executeAIBet(ai, gameState, roundState): the decisions it can return
executeAIBet(ai, pl, rs, hand, tableTotal) ==
    LET highestBet == tableHighestBet(rs.bets_json)
        myCurrentBet == rs.bets_json[ai]
        callAmount == highestBet - myCurrentBet
        money == pl[ai].money_cents
        validated(d) ==
            IF d.action = "raise" /\ money < highestBet + d.amount - myCurrentBet
            THEN IF money >= highestBet + 10000 - myCurrentBet THEN raise(10000)
                 ELSE call
            ELSE d
        final(d) ==
            IF d.action = "call" /\ 10 * callAmount >= 8 * money
            THEN IF strengthAbove(hand, tableTotal, allInThreshold(ai))
                 THEN LET a == IF callAmount >= money THEN "all-in" ELSE "call"
                      IN {[action |-> a, amount |-> 0, shouldFinalize |-> f] :
                            f \in IF a = "call" THEN {TRUE} ELSE shouldFinalizeBet(ai, rs)}
                 ELSE {[action |-> "call", amount |-> 0, shouldFinalize |-> TRUE]}
            ELSE {[action |-> d.action, amount |-> d.amount, shouldFinalize |-> f] :
                    f \in IF d.action = "call" THEN {TRUE} ELSE shouldFinalizeBet(ai, rs)}
    IN UNION {final(validated(d)) : d \in chooseBetAction(ai, rs, hand, tableTotal)}

\* the highest card of the hand, safe or not
chooseCardHighest(ai, hand, tableTotal) == {MaxOf(Range(hand))}

\* AIPlayer.chooseCard(tableTotal) for a non-empty hand: the cards it can return
chooseCard(ai, hand, tableTotal) ==
    LET handCards == Range(hand)
        safeIdx == {i \in 1 .. Len(hand) : tableTotal + hand[i] < BUST_THRESHOLD}
        safeCards == {hand[i] : i \in safeIdx}
        \* sorted[Math.floor(sorted.length / 2)] of the safe cards, duplicates kept
        middle == CHOOSE c \in safeCards :
                     /\ Cardinality({i \in safeIdx : hand[i] < c}) <= Cardinality(safeIdx) \div 2
                     /\ Cardinality({i \in safeIdx : hand[i] <= c}) > Cardinality(safeIdx) \div 2
        safeSeq == SelectSeq(hand, LAMBDA c : tableTotal + c < BUST_THRESHOLD)
    IN IF safeCards = {} THEN {MinOf(handCards)}
       ELSE CASE personality(ai) = "cautious" -> {MinOf(safeCards)}
              [] personality(ai) = "aggressive" ->
                    IF tableTotal < 5 THEN {MaxOf(safeCards)}
                    ELSE {pick(safeSeq, r) : r \in Rolls}
              [] OTHER -> {middle}

---------------------------------------------------------------------------
(* The solitary session (app.js).  Init is the state startAIRound leaves   *)
(* for round 1 after handlePlayAI.                                         *)

\* offline (AI mode) nothing is stored and no shared call is made
noRows ==
    [money_cents |-> [p \in Players |-> 0],
     pot_cents |-> 0,
     turn_player_id |-> 0,
     bets_json |-> [p \in Players |-> 0],
     has_raised_json |-> [p \in Players |-> FALSE],
     has_bet_json |-> [p \in Players |-> FALSE],
     finalized_json |-> [p \in Players |-> FALSE]]

\* one participant only: no other appState
noClients == <<>>

noCall == [pc |-> "idle", playerId |-> 0, action |-> "none", calls |-> 0]

idle == [isProcessing |-> FALSE, pc |-> "idle", ai |-> 0, tableTotal |-> 0]

\* an exception escaped processAITurn: the interval callback never reaches
\* isProcessing = false
stopped == [isProcessing |-> TRUE, pc |-> "stopped", ai |-> 0, tableTotal |-> 0]

Init ==
    \E startingPlayer \in {pick(seatList(Players, 0), r) : r \in Rolls}, deal \in Deals :
        /\ players = [p \in Players |-> [money_cents |-> STARTING_MONEY, status |-> "active"]]
        /\ room = [phase |-> "betting",
                   turn_player_id |-> getPlayersInTurnOrder(players, startingPlayer)[1],
                   table_total |-> 0,
                   pot_cents |-> 0,
                   starting_player_index |-> startingPlayer,
                   current_round |-> 1]
        /\ roundState = [bets_json |-> [p \in Players |-> 0],
                         has_raised_json |-> [p \in Players |-> FALSE],
                         has_bet_json |-> [p \in Players |-> FALSE],
                         finalized_json |-> [p \in Players |-> FALSE],
                         played_count |-> 0,
                         log_json |-> [k \in LogKinds |-> [p \in Players |-> 0]]]
        /\ hands = deal
        /\ aiLoop = idle
        /\ roundEndTimers = 0
        /\ store = noRows
        /\ sharedCall = noCall
        /\ clients = noClients

\* the tail shared by the betting handlers: "Check if betting is complete".
\* transitionToPlaying returns undefined, so reading
\* transitionResult.needsPositionChoice throws a TypeError once the room
\* has been moved to the playing phase; crashed tells the caller.
afterBet(rm, pl, rs, seat) ==
    IF isBettingComplete(pl, rs.finalized_json)
    THEN LET t == transitionToPlaying(rm, pl, rs)
         IN [room |-> t.room, roundState |-> t.roundState, crashed |-> TRUE]
    ELSE LET nextPlayer == getNextBettingPlayer(pl, seat, rs.finalized_json)
         IN [room |-> [rm EXCEPT !.turn_player_id =
                                    IF nextPlayer # -1 THEN nextPlayer ELSE @],
             roundState |-> rs, crashed |-> FALSE]

\* the handlers' body with the finalize applied without processBet's checks
humanBetFinalizeUnchecked(action, amount) ==
    /\ IF action = "finalize" THEN roundState.log_json.finalize[Human] < MaxFinalizes
       ELSE betEntries(roundState.log_json, Human) < MaxBets
    /\ LET r == IF action = "finalize"
                THEN betResult(TRUE, "finalize", room, players,
                               [roundState EXCEPT !.finalized_json[Human] = TRUE,
                                                  !.log_json = push(@, "finalize", Human)])
                ELSE processBet(room, players, roundState, Human, action, amount)
           a == afterBet(r.room, r.players, r.roundState, Human)
       IN IF ~r.success THEN UNCHANGED <<room, players, roundState>>
          ELSE /\ room' = a.room
               /\ players' = r.players
               /\ roundState' = a.roundState
    /\ UNCHANGED <<hands, aiLoop, roundEndTimers, store, sharedCall, clients>>

\* handleAIRaise / handleAICall / handleAIAllIn / handleAIFinalize share this body
humanBet(action, amount) ==
    /\ IF action = "finalize" THEN roundState.log_json.finalize[Human] < MaxFinalizes
       ELSE betEntries(roundState.log_json, Human) < MaxBets
    /\ LET r == processBet(room, players, roundState, Human, action, amount)
           a == afterBet(r.room, r.players, r.roundState, Human)
       IN IF ~r.success THEN UNCHANGED <<room, players, roundState>>
          ELSE /\ room' = a.room
               /\ players' = r.players
               /\ roundState' = a.roundState
    /\ UNCHANGED <<hands, aiLoop, roundEndTimers, store, sharedCall, clients>>

handleAIRaise == \E amount \in HumanAmounts : humanBet("bet", amount)

handleAICall == humanBet("call", 0)

handleAIAllIn == humanBet("all-in", 0)

handleAIFinalize == humanBet("finalize", 0)

\* handleAICardClick(cardValue), while the human has played fewer than
\* maxPlays cards
humanCardPlay(cardValue, maxPlays) ==
    /\ roundState.log_json.play_card[Human] < maxPlays
    /\ LET r == processCardPlay(room, players, roundState, Human, cardValue)
       IN IF ~r.success THEN UNCHANGED <<room, roundState, hands, roundEndTimers>>
          ELSE /\ room' = r.room
               /\ roundState' = r.roundState
               /\ hands' = [hands EXCEPT ![Human] = removeCard(@, cardValue)]
               /\ roundEndTimers' = IF r.bust THEN roundEndTimers + 1
                                    ELSE roundEndTimers
    /\ UNCHANGED <<players, aiLoop, store, sharedCall, clients>>

handleAICardClick == \E cardValue \in HumanCards : humanCardPlay(cardValue, MaxPlays)

\* handleAIRoundEnd run whether or not a bust has started it
handleAIRoundEndWithoutBust ==
    /\ LET e == endRound(room, players, roundState, Human)
       IN /\ room' = e.room
          /\ players' = e.players
          /\ roundState' = e.roundState
    /\ roundEndTimers' = IF roundEndTimers > 0 THEN roundEndTimers - 1 ELSE 0
    /\ UNCHANGED <<hands, aiLoop, store, sharedCall, clients>>

\* handleAIRoundEnd(human) after its sleep: endRound, then the ReferenceError
\* ends the handler before checkGameOver and startAIRound
handleAIRoundEnd ==
    /\ roundEndTimers > 0
    /\ LET e == endRound(room, players, roundState, Human)
       IN /\ room' = e.room
          /\ players' = e.players
          /\ roundState' = e.roundState
    /\ roundEndTimers' = roundEndTimers - 1
    /\ UNCHANGED <<hands, aiLoop, store, sharedCall, clients>>

\* the setInterval callback of startAIGameLoop with processAITurn up to the
\* first sleep; a tick that finds no AI turn changes nothing
processAITurn ==
    /\ ~aiLoop.isProcessing
    /\ room.phase \in {"betting", "playing"}
    /\ players[room.turn_player_id].status = "active"
    /\ room.turn_player_id # Human
    /\ aiLoop' = [isProcessing |-> TRUE,
                  pc |-> IF room.phase = "betting" THEN "betTurn" ELSE "playTurn",
                  ai |-> room.turn_player_id,
                  tableTotal |-> 0]
    /\ UNCHANGED <<room, players, roundState, hands, roundEndTimers, store, sharedCall, clients>>

\* executeAIBetTurn after its sleep: getGameState, then executeAIBet sleeps
getGameState ==
    /\ aiLoop.pc \in {"betTurn", "playTurn"}
    /\ aiLoop' = [aiLoop EXCEPT !.pc = IF @ = "betTurn" THEN "bet" ELSE "play",
                                !.tableTotal = room.table_total]
    /\ UNCHANGED <<room, players, roundState, hands, roundEndTimers, store, sharedCall, clients>>

\* executeAIBetTurn from the decision to the sleep before the finalize, or
\* to its end
executeAIBetTurn ==
    /\ aiLoop.pc = "bet"
    /\ betEntries(roundState.log_json, aiLoop.ai) < MaxBets
    /\ \E decision \in executeAIBet(aiLoop.ai, players, roundState,
                                    hands[aiLoop.ai], aiLoop.tableTotal) :
        LET r == processBet(room, players, roundState, aiLoop.ai,
                            IF decision.action = "raise" THEN "bet" ELSE decision.action,
                            decision.amount)
            a == afterBet(r.room, r.players, r.roundState, aiLoop.ai)
        IN IF ~r.success
           THEN /\ aiLoop' = idle
                /\ UNCHANGED <<room, players, roundState>>
           ELSE IF decision.shouldFinalize /\ decision.action # "finalize"
           THEN /\ aiLoop' = [aiLoop EXCEPT !.pc = "finalize"]
                /\ room' = r.room
                /\ players' = r.players
                /\ roundState' = r.roundState
           ELSE /\ aiLoop' = IF a.crashed THEN stopped ELSE idle
                /\ room' = a.room
                /\ players' = r.players
                /\ roundState' = a.roundState
    /\ UNCHANGED <<hands, roundEndTimers, store, sharedCall, clients>>

\* executeAIBetTurn from the finalize to its end
executeAIFinalize ==
    /\ aiLoop.pc = "finalize"
    /\ roundState.log_json.finalize[aiLoop.ai] < MaxFinalizes
    /\ LET r == processBet(room, players, roundState, aiLoop.ai, "finalize", 0)
           a == afterBet(r.room, r.players, r.roundState, aiLoop.ai)
       IN /\ aiLoop' = IF a.crashed THEN stopped ELSE idle
          /\ room' = a.room
          /\ players' = r.players
          /\ roundState' = a.roundState
    /\ UNCHANGED <<hands, roundEndTimers, store, sharedCall, clients>>

\* executeAIPlayTurn from the card choice on; chooseCard throws on an empty hand
executeAIPlayTurnWithin(maxPlays) ==
    /\ aiLoop.pc = "play"
    /\ roundState.log_json.play_card[aiLoop.ai] < maxPlays
    /\ IF hands[aiLoop.ai] = <<>>
       THEN /\ aiLoop' = stopped
            /\ UNCHANGED <<room, roundState, hands>>
       ELSE \E cardToPlay \in chooseCard(aiLoop.ai, hands[aiLoop.ai], aiLoop.tableTotal) :
            LET r == processCardPlay(room, players, roundState, aiLoop.ai, cardToPlay)
            IN IF ~r.success
               THEN /\ aiLoop' = idle
                    /\ UNCHANGED <<room, roundState, hands>>
               ELSE /\ room' = r.room
                    /\ roundState' = r.roundState
                    /\ hands' = [hands EXCEPT ![aiLoop.ai] = removeCard(@, cardToPlay)]
                    /\ aiLoop' = IF r.bust THEN [aiLoop EXCEPT !.pc = "roundEnd"]
                                 ELSE idle
    /\ UNCHANGED <<players, roundEndTimers, store, sharedCall, clients>>

executeAIPlayTurn == executeAIPlayTurnWithin(MaxPlays)

\* handleAIRoundEnd(aiPlayer.id) after its sleep, awaited by the AI loop
executeAIRoundEnd ==
    /\ aiLoop.pc = "roundEnd"
    /\ LET e == endRound(room, players, roundState, aiLoop.ai)
       IN /\ room' = e.room
          /\ players' = e.players
          /\ roundState' = e.roundState
    /\ aiLoop' = stopped
    /\ UNCHANGED <<hands, roundEndTimers, store, sharedCall, clients>>

\* handlePositionChoice(choice), the handler of the choose-first and
\* choose-last buttons: game.applyPositionChoice is not defined, so the call
\* throws a TypeError before anything is changed
handlePositionChoice ==
    \E choice \in {"first", "last"} :
        /\ choice \in {"first", "last"}
        /\ UNCHANGED vars

Next ==
    \/ handlePositionChoice
    \/ handleAIRaise
    \/ handleAICall
    \/ handleAIAllIn
    \/ handleAIFinalize
    \/ handleAICardClick
    \/ handleAIRoundEnd
    \/ processAITurn
    \/ getGameState
    \/ executeAIBetTurn
    \/ executeAIFinalize
    \/ executeAIPlayTurn
    \/ executeAIRoundEnd

Spec == Init /\ [][Next]_vars

---------------------------------------------------------------------------
(* The round-end distribution on its own: game.endRound at the end of a     *)
(* round, for any committed bets and any eliminated player, with the last   *)
(* seat active or a spectator left without money by an earlier round.       *)

\* committed bets are drawn in steps of the minimum bet, up to the stake
MaxBetSteps == 10

CommittedBets ==
    {b \in {k * MIN_BET : k \in 0 .. MaxBetSteps} : b <= STARTING_MONEY}

InitShares ==
    \E bets \in [Players -> CommittedBets],
       lastSeat \in {"active", "spectator"},
       startingPlayer \in {0, MAX_PLAYERS - 1} :
        /\ lastSeat = "spectator" => bets[MAX_PLAYERS - 1] = 0
        /\ players = [p \in Players |->
                        IF p = MAX_PLAYERS - 1 /\ lastSeat = "spectator"
                        THEN [money_cents |-> 0, status |-> "spectator"]
                        ELSE [money_cents |-> STARTING_MONEY - bets[p], status |-> "active"]]
        /\ room = [phase |-> "playing",
                   turn_player_id |-> Human,
                   table_total |-> BUST_THRESHOLD,
                   pot_cents |-> SumOver(bets, Players),
                   starting_player_index |-> startingPlayer,
                   current_round |-> 1]
        /\ roundState = [bets_json |-> bets,
                         has_raised_json |-> [p \in Players |-> bets[p] > 0],
                         has_bet_json |-> [p \in Players |-> bets[p] > 0],
                         finalized_json |-> [p \in Players |-> TRUE],
                         played_count |-> MAX_PLAYERS,
                         log_json |-> [k \in LogKinds |-> [p \in Players |-> 0]]]
        /\ hands = [p \in Players |-> <<>>]
        /\ aiLoop = stopped
        /\ roundEndTimers = 0
        /\ store = noRows
        /\ sharedCall = noCall
        /\ clients = noClients

endRoundCall ==
    /\ room.phase = "playing"
    /\ \E eliminatedPlayerId \in Players :
        LET e == endRound(room, players, roundState, eliminatedPlayerId)
        IN /\ room' = e.room
           /\ players' = e.players
           /\ roundState' = e.roundState
    /\ UNCHANGED <<hands, aiLoop, roundEndTimers, store, sharedCall, clients>>

NextShares == endRoundCall

SpecShares == InitShares /\ [][NextShares]_vars

---------------------------------------------------------------------------
(* The start of a round on its own: startAIRound with game.startNewRound,  *)
(* for any statuses and balances of the four players and any               *)
(* starting_player_index.                                                  *)

CARDS_PER_PLAYER_4 == 4
CARDS_PER_PLAYER_2 == 6

\* the number of the last round started in one run
MaxRounds == 2

\* the balances players come to a new round with
RoundMoney == {0, STARTING_MONEY}

\* the hands a new round's deal is drawn from, six cards a player
RoundDeals ==
    { [p \in Players |-> CASE p = 0 -> <<3, 2, 1, 0, 1, 2>>
                           [] p = 1 -> <<3, 3, 3, 2, 0, 0>>
                           [] p = 2 -> <<3, 3, 3, 3, 1, 1>>
                           [] OTHER -> <<3, 3, 2, 2, 0, 1>>],
      [p \in Players |-> CASE p = 0 -> <<0, 0, 1, 1, 2, 2>>
                           [] p = 1 -> <<1, 2, 3, 0, 1, 2>>
                           [] p = 2 -> <<2, 2, 2, 2, 3, 3>>
                           [] OTHER -> <<0, 1, 0, 1, 3, 3>>] }

\* a blank round state: what startAIRound assigns to appState.roundState
newRoundState ==
    [bets_json |-> [p \in Players |-> 0],
     has_raised_json |-> [p \in Players |-> FALSE],
     has_bet_json |-> [p \in Players |-> FALSE],
     finalized_json |-> [p \in Players |-> FALSE],
     played_count |-> 0,
     log_json |-> [k \in LogKinds |-> [p \in Players |-> 0]]]

InitNewRound ==
    \E status \in [Players -> {"active", "spectator"}],
       money \in [Players -> RoundMoney],
       startingPlayer \in Players :
        /\ players = [p \in Players |-> [money_cents |-> money[p], status |-> status[p]]]
        /\ room = [phase |-> "round_end",
                   turn_player_id |-> Human,
                   table_total |-> BUST_THRESHOLD,
                   pot_cents |-> 0,
                   starting_player_index |-> startingPlayer,
                   current_round |-> 1]
        /\ roundState = newRoundState
        /\ hands = [p \in Players |-> <<>>]
        /\ aiLoop = stopped
        /\ roundEndTimers = 0
        /\ store = noRows
        /\ sharedCall = noCall
        /\ clients = noClients

\* every player with money taken into the round, spectators too
roundPlayersOfAnyStatus(pl) == {p \in Players : pl[p].money_cents > 0}

\* game.startNewRound(room, players, true): the players it deals to
roundPlayers(pl) == {p \in activeSeats(pl) : pl[p].money_cents > 0}

\* the gameOver and winner of its result: activePlayers[0] || players[0]
startNewRoundResult(pl) ==
    [gameOver |-> Cardinality(roundPlayers(pl)) < 2,
     winner |-> IF roundPlayers(pl) # {} THEN MinOf(roundPlayers(pl)) ELSE 0]

\* startAIRound after its sleep: game.startNewRound, then the hands, the
\* round state and the room are set and the AI loop is started; on gameOver
\* only the game-over screen is shown
startAIRound ==
    /\ room.phase = "round_end"
    /\ room.current_round < MaxRounds
    /\ IF startNewRoundResult(players).gameOver THEN UNCHANGED vars
       ELSE \E deal \in RoundDeals :
            LET activePlayers == roundPlayers(players)
                pl == [p \in Players |->
                        IF players[p].money_cents <= 0 /\ players[p].status = "active"
                        THEN [players[p] EXCEPT !.status = "spectator"]
                        ELSE players[p]]
                cardsPerPlayer == IF Cardinality(activePlayers) >= 3
                                  THEN CARDS_PER_PLAYER_4 ELSE CARDS_PER_PLAYER_2
                orderedPlayers == getPlayersInTurnOrder(pl, room.starting_player_index)
            IN /\ players' = pl
               /\ hands' = [p \in Players |->
                              IF p \in activePlayers THEN SubSeq(deal[p], 1, cardsPerPlayer)
                              ELSE hands[p]]
               /\ roundState' = newRoundState
               /\ room' = [room EXCEPT !.current_round = @ + 1,
                                       !.phase = "betting",
                                       !.turn_player_id = orderedPlayers[1],
                                       !.table_total = 0]
               /\ aiLoop' = idle
               /\ UNCHANGED <<roundEndTimers, store, sharedCall, clients>>

NextNewRound == startAIRound

SpecNewRound == InitNewRound /\ [][NextNewRound]_vars

---------------------------------------------------------------------------
(* A round from its start to its end, with a player who comes to it        *)
(* without money: startAIRound, then the session's handlers and AI loop.   *)

InitRounds ==
    \E broke \in {Human, MAX_PLAYERS - 1} :
        /\ players = [p \in Players |->
                        [money_cents |-> IF p = broke THEN 0 ELSE STARTING_MONEY,
                         status |-> "active"]]
        /\ room = [phase |-> "round_end",
                   turn_player_id |-> broke,
                   table_total |-> BUST_THRESHOLD,
                   pot_cents |-> 0,
                   starting_player_index |-> broke,
                   current_round |-> 1]
        /\ roundState = newRoundState
        /\ hands = [p \in Players |-> <<>>]
        /\ aiLoop = stopped
        /\ roundEndTimers = 0
        /\ store = noRows
        /\ sharedCall = noCall
        /\ clients = noClients

NextRounds == startAIRound \/ Next

SpecRounds == InitRounds /\ [][NextRounds]_vars

---------------------------------------------------------------------------
(* The two request handlers of the state machine on their own:             *)
(* game.processBet and game.processCardPlay called by any player with any  *)
(* request, in betting positions of any round.                             *)

\* requests applied in one run
MaxRequests == 1

\* balances and committed bets of the positions
PositionMoney == {0, 5000, MIN_BET, STARTING_MONEY}
PositionBets == {0, 50000}

\* the betting requests: each action name with the amounts it is called
\* with, and an action name processBet does not know
BetRequests ==
    {<<"bet", a>> : a \in RAISE_AMOUNTS \cup HumanAmounts \cup PositionMoney}
        \cup {<<"call", 0>>, <<"all-in", 0>>, <<"finalize", 0>>, <<"fold", 0>>}

InitRequests ==
    \E status \in [Players -> {"active", "spectator"}],
       money \in [Players -> PositionMoney],
       bets \in [Players -> PositionBets],
       acted \in [Players -> BOOLEAN],
       turn \in Players :
        /\ \A p \in AIs \ {1} : status[p] = "active" /\ money[p] = STARTING_MONEY /\ acted[p]
        /\ \A p \in Players : bets[p] > 0 => acted[p]
        /\ players = [p \in Players |-> [money_cents |-> money[p], status |-> status[p]]]
        /\ room = [phase |-> "betting",
                   turn_player_id |-> turn,
                   table_total |-> BUST_THRESHOLD - 2,
                   pot_cents |-> SumOver(bets, Players),
                   starting_player_index |-> 0,
                   current_round |-> 2]
        /\ roundState = [newRoundState EXCEPT
                            !.bets_json = bets,
                            !.has_raised_json = [p \in Players |-> bets[p] > 0],
                            !.has_bet_json = acted]
        /\ hands = [p \in Players |-> <<>>]
        /\ aiLoop = stopped
        /\ roundEndTimers = 0
        /\ store = noRows
        /\ sharedCall = noCall
        /\ clients = noClients

\* the requests applied so far
requestsMade ==
    SumOver([p \in Players |-> betEntries(roundState.log_json, p)
                                + roundState.log_json.finalize[p]
                                + roundState.log_json.play_card[p]], Players)

processBetCall ==
    /\ requestsMade < MaxRequests
    /\ \E playerId \in Players, request \in BetRequests :
        LET r == processBet(room, players, roundState, playerId, request[1], request[2])
        IN /\ room' = r.room
           /\ players' = r.players
           /\ roundState' = r.roundState
    /\ UNCHANGED <<hands, aiLoop, roundEndTimers, store, sharedCall, clients>>

processCardPlayCall ==
    /\ requestsMade < MaxRequests
    /\ \E playerId \in Players, cardValue \in Cards :
        LET r == processCardPlay(room, players, roundState, playerId, cardValue)
        IN /\ room' = r.room
           /\ roundState' = r.roundState
    /\ UNCHANGED <<players, hands, aiLoop, roundEndTimers, store, sharedCall, clients>>

NextRequests == processBetCall \/ processCardPlayCall

SpecRequests == InitRequests /\ [][NextRequests]_vars

---------------------------------------------------------------------------
(* Shared mode: game.processBet with isOffline false. The call changes the *)
(* client's objects, then awaits the store updates one after another; each *)
(* update throws when the store reports an error, which ends the call.     *)

\* processBet calls made in one run
MaxSharedCalls == 2

\* the money-moving requests of the betting phase
SharedRequests ==
    {<<"bet", a>> : a \in RAISE_AMOUNTS} \cup {<<"call", 0>>, <<"all-in", 0>>}

\* the rows of a round that has just started
InitShared ==
    /\ players = [p \in Players |-> [money_cents |-> STARTING_MONEY, status |-> "active"]]
    /\ room = [phase |-> "betting",
               turn_player_id |-> 0,
               table_total |-> 0,
               pot_cents |-> 0,
               starting_player_index |-> 0,
               current_round |-> 1]
    /\ roundState = newRoundState
    /\ hands = [p \in Players |-> <<>>]
    /\ aiLoop = stopped
    /\ roundEndTimers = 0
    /\ store = [money_cents |-> [p \in Players |-> players[p].money_cents],
                pot_cents |-> room.pot_cents,
                turn_player_id |-> room.turn_player_id,
                bets_json |-> roundState.bets_json,
                has_raised_json |-> roundState.has_raised_json,
                has_bet_json |-> roundState.has_bet_json,
                finalized_json |-> roundState.finalized_json]
    /\ sharedCall = noCall
    /\ clients = noClients

\* the call is over: it returned, or an awaited update threw
returned == [sharedCall EXCEPT !.pc = "idle"]

\* processBet up to its first await: the validation and the assignments to
\* player, room and the bets and flags objects of roundState; a call of
\* amount 0 has no updates to await before its log entry
processBetShared ==
    /\ sharedCall.pc = "idle"
    /\ sharedCall.calls < MaxSharedCalls
    /\ \E playerId \in Players, request \in SharedRequests :
        LET r == processBet(room, players, roundState, playerId, request[1], request[2])
            action == request[1]
            moves == r.room.pot_cents # room.pot_cents
        IN IF ~r.success
           THEN /\ UNCHANGED <<room, players, roundState>>
                /\ sharedCall' = [sharedCall EXCEPT !.calls = @ + 1]
           ELSE /\ room' = r.room
                /\ players' = r.players
                /\ roundState' =
                       IF action = "call" /\ moves
                       THEN [roundState EXCEPT !.bets_json = r.roundState.bets_json]
                       ELSE IF action = "call"
                       THEN r.roundState
                       ELSE [r.roundState EXCEPT !.log_json = roundState.log_json]
                /\ sharedCall' = [pc |-> IF moves THEN "updatePlayer" ELSE "logAction",
                                  playerId |-> playerId,
                                  action |-> action,
                                  calls |-> sharedCall.calls + 1]
    /\ UNCHANGED <<hands, aiLoop, roundEndTimers, store, clients>>

\* supabaseClient.updatePlayer(playerId, { money_cents })
updatePlayer ==
    /\ sharedCall.pc = "updatePlayer"
    /\ \E error \in BOOLEAN :
        IF error
        THEN /\ sharedCall' = returned
             /\ UNCHANGED store
        ELSE /\ store' = [store EXCEPT !.money_cents[sharedCall.playerId] =
                                           players[sharedCall.playerId].money_cents]
             /\ sharedCall' = [sharedCall EXCEPT !.pc = "updateRoom"]
    /\ UNCHANGED <<room, players, roundState, hands, aiLoop, roundEndTimers, clients>>

\* supabaseClient.updateRoom(room.code, { pot_cents })
updateRoom ==
    /\ sharedCall.pc = "updateRoom"
    /\ \E error \in BOOLEAN :
        IF error
        THEN /\ sharedCall' = returned
             /\ UNCHANGED store
        ELSE /\ store' = [store EXCEPT !.pot_cents = room.pot_cents]
             /\ sharedCall' = [sharedCall EXCEPT !.pc = "updateRoundState"]
    /\ UNCHANGED <<room, players, roundState, hands, aiLoop, roundEndTimers, clients>>

\* supabaseClient.updateRoundState with the bets, and for a bet or an all-in
\* the flags as well; a call then marks has_bet and pushes its log entry
updateRoundState ==
    /\ sharedCall.pc = "updateRoundState"
    /\ \E error \in BOOLEAN :
        IF error
        THEN /\ sharedCall' = returned
             /\ UNCHANGED <<store, roundState>>
        ELSE /\ store' = IF sharedCall.action = "call"
                         THEN [store EXCEPT !.bets_json = roundState.bets_json]
                         ELSE [store EXCEPT !.bets_json = roundState.bets_json,
                                            !.has_raised_json = roundState.has_raised_json,
                                            !.has_bet_json = roundState.has_bet_json]
             /\ roundState' =
                    IF sharedCall.action = "call"
                    THEN [roundState EXCEPT
                              !.has_bet_json[sharedCall.playerId] = TRUE,
                              !.log_json = push(@, "call", sharedCall.playerId)]
                    ELSE roundState
             /\ sharedCall' = [sharedCall EXCEPT !.pc = "logAction"]
    /\ UNCHANGED <<room, players, hands, aiLoop, roundEndTimers, clients>>

\* supabaseClient.logAction, which reports an error without throwing; a bet
\* or an all-in then pushes its log entry and returns, a call goes on to
\* store has_bet_json
logAction ==
    /\ sharedCall.pc = "logAction"
    /\ IF sharedCall.action = "call"
       THEN /\ sharedCall' = [sharedCall EXCEPT !.pc = "updateHasBet"]
            /\ UNCHANGED roundState
       ELSE /\ roundState' = [roundState EXCEPT
                                 !.log_json = push(@, "bet", sharedCall.playerId)]
            /\ sharedCall' = returned
    /\ UNCHANGED <<room, players, hands, aiLoop, roundEndTimers, store, clients>>

\* supabaseClient.updateRoundState(room.code, { has_bet_json }) of a call
updateHasBet ==
    /\ sharedCall.pc = "updateHasBet"
    /\ \E error \in BOOLEAN :
        IF error
        THEN UNCHANGED store
        ELSE store' = [store EXCEPT !.has_bet_json = roundState.has_bet_json]
    /\ sharedCall' = returned
    /\ UNCHANGED <<room, players, roundState, hands, aiLoop, roundEndTimers, clients>>

NextShared ==
    \/ processBetShared
    \/ updatePlayer
    \/ updateRoom
    \/ updateRoundState
    \/ logAction
    \/ updateHasBet

SpecShared == InitShared /\ [][NextShared]_vars

---------------------------------------------------------------------------
(* Shared mode with two participants. Each has its own appState, loaded    *)
(* from the store rows and reloaded when a change notification arrives,    *)
(* and calls game.processBet on it; the store is all they share.           *)

\* processBet calls of each participant in one run
MaxClientCalls == 1

\* the participants, by playerId; the other seats hold bots
Clients == {0, 1}
HOST == 0
Bots == Players \ Clients

\* runs of the host's bot runner in one run
MaxTicks == 1

ClientAmounts == {10000}

\* what each participant has bet, and the store holds, when the run starts
OpeningBets == {0, 10000}

ClientRequests ==
    {<<"bet", a>> : a \in ClientAmounts}
        \cup {<<"call", 0>>, <<"all-in", 0>>, <<"finalize", 0>>}

\* supabaseClient.getRoom and getPlayers: the rooms row and the players rows
loadRoomRows(st) ==
    [room |-> [phase |-> "betting",
               turn_player_id |-> st.turn_player_id,
               table_total |-> 0,
               pot_cents |-> st.pot_cents,
               starting_player_index |-> 0,
               current_round |-> 1],
     players |-> [p \in Players |-> [money_cents |-> st.money_cents[p],
                                     status |-> "active"]]]

\* supabaseClient.getRoundState: the round_state row, its log_json as
\* initRoundState stored it
loadRoundStateRow(st) ==
    [newRoundState EXCEPT !.bets_json = st.bets_json,
                          !.has_raised_json = st.has_raised_json,
                          !.has_bet_json = st.has_bet_json,
                          !.finalized_json = st.finalized_json]

\* a participant that has loaded the rows and has no call in flight; paid,
\* finalized and threw record what its calls have returned
loaded(st, c) ==
    [room |-> loadRoomRows(st).room,
     players |-> loadRoomRows(st).players,
     roundState |-> loadRoundStateRow(st),
     pc |-> "idle",
     action |-> "none",
     amount |-> 0,
     calls |-> 0,
     paid |-> st.bets_json[c],
     finalized |-> st.finalized_json[c],
     threw |-> FALSE,
     ticks |-> 0,
     botTurns |-> 0]

InitClients ==
    \E opening \in [Clients -> OpeningBets], turn \in Players :
        LET bets == [p \in Players |-> IF p \in Clients THEN opening[p] ELSE 0]
            rows == [noRows EXCEPT
                        !.money_cents = [p \in Players |-> STARTING_MONEY - bets[p]],
                        !.pot_cents = SumOver(bets, Players),
                        !.turn_player_id = turn,
                        !.bets_json = bets,
                        !.has_raised_json = [p \in Players |-> p = HOST /\ bets[p] > 0],
                        !.has_bet_json = [p \in Players |-> bets[p] > 0]]
        IN /\ store = rows
           /\ clients = [c \in Clients |-> loaded(rows, c)]
           /\ room = loadRoomRows(rows).room
           /\ players = loadRoomRows(rows).players
           /\ roundState = loadRoundStateRow(rows)
           /\ hands = [p \in Players |-> <<>>]
           /\ aiLoop = stopped
           /\ roundEndTimers = 0
           /\ sharedCall = noCall

\* a participant's call is over: processBet returned or an update threw
clientReturned(v, success) ==
    [v EXCEPT !.pc = "idle",
              !.paid = IF success /\ v.action # "finalize" THEN @ + v.amount ELSE @,
              !.finalized = @ \/ (success /\ v.action = "finalize"),
              !.threw = @ \/ ~success]

\* processBet up to its first await, on the participant's own appState
clientProcessBet(c) ==
    /\ clients[c].pc = "idle"
    /\ clients[c].calls < MaxClientCalls
    /\ \E request \in ClientRequests :
        LET v == clients[c]
            r == processBet(v.room, v.players, v.roundState, c, request[1], request[2])
            action == request[1]
            amount == r.room.pot_cents - v.room.pot_cents
            rs == IF action = "finalize"
                  THEN [v.roundState EXCEPT !.finalized_json = r.roundState.finalized_json]
                  ELSE IF action = "call" /\ amount > 0
                  THEN [v.roundState EXCEPT !.bets_json = r.roundState.bets_json]
                  ELSE IF action = "call"
                  THEN r.roundState
                  ELSE [r.roundState EXCEPT !.log_json = v.roundState.log_json]
            pc == IF action = "finalize" THEN "updateFinalized"
                  ELSE IF amount > 0 THEN "updatePlayer"
                  ELSE "logAction"
        IN clients' = [clients EXCEPT ![c] =
               IF ~r.success
               THEN [v EXCEPT !.calls = @ + 1]
               ELSE [v EXCEPT !.room = r.room,
                              !.players = r.players,
                              !.roundState = rs,
                              !.pc = pc,
                              !.action = action,
                              !.amount = amount,
                              !.calls = @ + 1]]
    /\ UNCHANGED <<room, players, roundState, hands, aiLoop, roundEndTimers, store, sharedCall>>

\* the call after the store update it awaits: each update writes the
\* fields it is given, whole, from the caller's objects
clientAwait(v, c, st, error) ==
    LET thrown == [view |-> clientReturned(v, FALSE), store |-> st]
    IN
    IF v.pc = "updatePlayer" THEN
        IF error THEN thrown
        ELSE [view |-> [v EXCEPT !.pc = "updateRoom"],
              store |-> [st EXCEPT !.money_cents[c] = v.players[c].money_cents]]
    ELSE IF v.pc = "updateRoom" THEN
        IF error THEN thrown
        ELSE [view |-> [v EXCEPT !.pc = "updateRoundState"],
              store |-> [st EXCEPT !.pot_cents = v.room.pot_cents]]
    ELSE IF v.pc = "updateRoundState" THEN
        IF error THEN thrown
        ELSE IF v.action = "call"
        THEN [view |-> [v EXCEPT !.pc = "logAction",
                                 !.roundState.has_bet_json[c] = TRUE,
                                 !.roundState.log_json = push(@, "call", c)],
              store |-> [st EXCEPT !.bets_json = v.roundState.bets_json]]
        ELSE [view |-> [v EXCEPT !.pc = "logAction"],
              store |-> [st EXCEPT !.bets_json = v.roundState.bets_json,
                                   !.has_raised_json = v.roundState.has_raised_json,
                                   !.has_bet_json = v.roundState.has_bet_json]]
    ELSE IF v.pc = "logAction" THEN
        IF v.action = "call"
        THEN [view |-> [v EXCEPT !.pc = "updateHasBet"], store |-> st]
        ELSE [view |-> clientReturned([v EXCEPT !.roundState.log_json = push(@, "bet", c)], TRUE),
              store |-> st]
    ELSE IF v.pc = "updateHasBet" THEN
        IF error THEN thrown
        ELSE [view |-> clientReturned(v, TRUE),
              store |-> [st EXCEPT !.has_bet_json = v.roundState.has_bet_json]]
    ELSE \* updateFinalized
        IF error THEN thrown
        ELSE [view |-> clientReturned([v EXCEPT !.roundState.log_json = push(@, "finalize", c)], TRUE),
              store |-> [st EXCEPT !.finalized_json = v.roundState.finalized_json]]

\* an awaited store update of a participant's call completes or fails
clientStoreUpdate(c) ==
    /\ clients[c].pc # "idle"
    /\ \E error \in BOOLEAN :
        LET r == clientAwait(clients[c], c, store, error)
        IN /\ clients' = [clients EXCEPT ![c] = r.view]
           /\ store' = r.store
    /\ UNCHANGED <<room, players, roundState, hands, aiLoop, roundEndTimers, sharedCall>>

\* the rooms and players subscriptions: loadRoomData
loadRoomData(c) ==
    /\ clients[c].pc = "idle"
    /\ clients' = [clients EXCEPT ![c].room = loadRoomRows(store).room,
                                  ![c].players = loadRoomRows(store).players]
    /\ UNCHANGED <<room, players, roundState, hands, aiLoop, roundEndTimers, store, sharedCall>>

\* the round_state subscription: loadRoundState
loadRoundState(c) ==
    /\ clients[c].pc = "idle"
    /\ clients' = [clients EXCEPT ![c].roundState = loadRoundStateRow(store)]
    /\ UNCHANGED <<room, players, roundState, hands, aiLoop, roundEndTimers, store, sharedCall>>

\* a field of a row or object, undefined when it has none of that name
undefined == "undefined"
field(object, name) == IF name \in DOMAIN object THEN object[name] ELSE undefined

\* the host's bot runner, on its interval and on the rooms and round_state
\* notifications: triggerBotTurn up to the await of executeBotBettingTurn
\* or executeBotPlayingTurn, which is the bot's decision in flight
triggerBotTurn ==
    /\ clients[HOST].ticks < MaxTicks
    /\ LET v == clients[HOST]
           phase == field(v.roundState, "phase")
           turnPlayerId == field(v.roundState, "turn_player_id")
           acts == /\ turnPlayerId # undefined
                   /\ turnPlayerId \in Bots
                   /\ phase \in {"betting", "playing"}
       IN clients' = [clients EXCEPT ![HOST].ticks = @ + 1,
                                     ![HOST].botTurns = IF acts THEN @ + 1 ELSE @]
    /\ UNCHANGED <<room, players, roundState, hands, aiLoop, roundEndTimers, store, sharedCall>>

NextClients ==
    \/ triggerBotTurn
    \/ \E c \in Clients :
        \/ clientProcessBet(c)
        \/ clientStoreUpdate(c)
        \/ loadRoomData(c)
        \/ loadRoundState(c)

SpecClients == InitClients /\ [][NextClients]_vars

---------------------------------------------------------------------------
(* game.isBettingComplete on its own: any players active, and any          *)
(* finalized map, with entries for some players only or for none, as a     *)
(* missing map is.                                                         *)

InitBettingComplete ==
    \E status \in [Players -> {"active", "spectator"}],
       entries \in SUBSET Players :
        \E finalized \in [entries -> BOOLEAN] :
            /\ players = [p \in Players |-> [money_cents |-> STARTING_MONEY,
                                             status |-> status[p]]]
            /\ room = [phase |-> "betting",
                       turn_player_id |-> 0,
                       table_total |-> 0,
                       pot_cents |-> 0,
                       starting_player_index |-> 0,
                       current_round |-> 1]
            /\ roundState = [newRoundState EXCEPT !.finalized_json = finalized]
            /\ hands = [p \in Players |-> <<>>]
            /\ aiLoop = stopped
            /\ roundEndTimers = 0
            /\ store = noRows
            /\ sharedCall = noCall
            /\ clients = noClients

\* the check the handlers make after a betting action: the round goes on to
\* the playing phase when isBettingComplete returns true
isBettingCompleteCall ==
    /\ room.phase = "betting"
    /\ room' = [room EXCEPT !.phase =
                   IF isBettingComplete(players, roundState.finalized_json)
                   THEN "playing" ELSE @]
    /\ UNCHANGED <<players, roundState, hands, aiLoop, roundEndTimers, store, sharedCall, clients>>

SpecBettingComplete == InitBettingComplete /\ [][isBettingCompleteCall]_vars

---------------------------------------------------------------------------
(* Dealing: game.startNewRound's deck, hands and round state, from any     *)
(* seating and any balances, under a family of shuffles.                   *)

\* the shuffles tried: position i of the shuffled deck takes the card at
\* (i * multiplier + offset) mod 40, a permutation as the multipliers have
\* no common factor with the deck's length
Multipliers == {1, 3, 7, 9}

\* the offsets tried are 0 .. MaxOffset
MaxOffset == 9

\* utils.createDeck(): ten cards of each value 0, 1, 2, 3, in that order
createDeck == [i \in 1 .. 40 |-> (i - 1) \div 10]

\* utils.shuffleArray(array): a copy with the same cards in another order
shuffleArray(array, multiplier, offset) ==
    [i \in 1 .. Len(array) |-> array[(((i - 1) * multiplier + offset) % Len(array)) + 1]]

\* a slice in place of the splice: the cards stay in the deck
dealCardsKeepingDeck(deck, count) ==
    [cards |-> SubSeq(deck, 1, count), deck |-> deck]

\* utils.dealCards(deck, count): deck.splice(0, count), the cards taken
\* and the deck they are removed from
dealCards(deck, count) ==
    [cards |-> SubSeq(deck, 1, IF count < Len(deck) THEN count ELSE Len(deck)),
     deck |-> SubSeq(deck, count + 1, Len(deck))]

\* for (const player of activePlayers) hands[player.id] = dealCards(...)
RECURSIVE dealHands(_, _, _, _)
dealHands(activePlayers, deck, cardsPerPlayer, dealt) ==
    IF activePlayers = <<>> THEN [hands |-> dealt, deck |-> deck]
    ELSE LET d == dealCards(deck, cardsPerPlayer)
         IN dealHands(Tail(activePlayers), d.deck, cardsPerPlayer,
                      [dealt EXCEPT ![Head(activePlayers)] = d.cards])

\* the round state startNewRound builds
startedRoundState(roundNo, deck) ==
    [round_no |-> roundNo,
     deck_json |-> deck,
     bets_json |-> newRoundState.bets_json,
     has_raised_json |-> newRoundState.has_raised_json,
     has_bet_json |-> newRoundState.has_bet_json,
     finalized_json |-> newRoundState.finalized_json,
     played_count |-> 0,
     log_json |-> newRoundState.log_json]

InitDeal ==
    \E status \in [Players -> {"active", "spectator"}],
       money \in [Players -> RoundMoney] :
        /\ players = [p \in Players |-> [money_cents |-> money[p], status |-> status[p]]]
        /\ room = [phase |-> "round_end",
                   turn_player_id |-> Human,
                   table_total |-> BUST_THRESHOLD,
                   pot_cents |-> 0,
                   starting_player_index |-> Human,
                   current_round |-> 1]
        /\ roundState = startedRoundState(1, <<>>)
        /\ hands = [p \in Players |-> <<>>]
        /\ aiLoop = stopped
        /\ roundEndTimers = 0
        /\ store = noRows
        /\ sharedCall = noCall
        /\ clients = noClients

\* game.startNewRound(room, players, true): its players, hands and
\* roundState when it returns
startNewRound ==
    \E multiplier \in Multipliers, offset \in 0 .. MaxOffset :
        IF startNewRoundResult(players).gameOver THEN UNCHANGED vars
        ELSE LET activePlayers == seatList(roundPlayers(players), 0)
                 cardsPerPlayer == IF Len(activePlayers) >= 3
                                   THEN CARDS_PER_PLAYER_4 ELSE CARDS_PER_PLAYER_2
                 deck == shuffleArray(createDeck, multiplier, offset)
                 dealt == dealHands(activePlayers, deck, cardsPerPlayer,
                                    [p \in Players |-> <<>>])
             IN /\ players' = [p \in Players |->
                                IF players[p].money_cents <= 0 /\ players[p].status = "active"
                                THEN [players[p] EXCEPT !.status = "spectator"]
                                ELSE players[p]]
                /\ hands' = dealt.hands
                /\ roundState' = startedRoundState(room.current_round + 1, dealt.deck)
                /\ UNCHANGED <<room, aiLoop, roundEndTimers, store, sharedCall, clients>>

SpecDeal == InitDeal /\ [][startNewRound]_vars

---------------------------------------------------------------------------
(* utils.dealCards on its own, called with any small deck and any count.   *)

\* the longest deck and the highest count dealCards is called with
MaxDeck == 3

MaxCount == 4

\* every deck of up to length cards
decksOf(length) == UNION {[1 .. k -> 0 .. 3] : k \in 0 .. length}

InitDealCards ==
    \E deck \in decksOf(MaxDeck), count \in 0 .. MaxCount :
        /\ roundState = [deck_json |-> deck]
        /\ sharedCall = [pc |-> "idle", count |-> count, threw |-> FALSE]
        /\ hands = [p \in Players |-> <<>>]
        /\ players = [p \in Players |-> [money_cents |-> STARTING_MONEY, status |-> "active"]]
        /\ room = [phase |-> "round_end",
                   turn_player_id |-> Human,
                   table_total |-> 0,
                   pot_cents |-> 0,
                   starting_player_index |-> Human,
                   current_round |-> 1]
        /\ aiLoop = stopped
        /\ roundEndTimers = 0
        /\ store = noRows
        /\ clients = noClients

\* hands[id] = utils.dealCards(deck, count): the function has no throw, it
\* returns what splice returns
dealCardsCall ==
    /\ sharedCall.pc = "idle"
    /\ LET d == dealCards(roundState.deck_json, sharedCall.count)
       IN /\ hands' = [hands EXCEPT ![Human] = d.cards]
          /\ roundState' = [roundState EXCEPT !.deck_json = d.deck]
          /\ sharedCall' = [sharedCall EXCEPT !.pc = "returned"]
    /\ UNCHANGED <<room, players, aiLoop, roundEndTimers, store, clients>>

SpecDealCards == InitDealCards /\ [][dealCardsCall]_vars

---------------------------------------------------------------------------
(* AIPlayer.chooseCard on its own, for every personality, every small hand *)
(* and every table total.                                                  *)

\* the longest hand and the highest table total chooseCard is called with
MaxHand == 4

MaxTableTotal == 12

InitChooseCard ==
    \E ai \in AIs, hand \in decksOf(MaxHand), tableTotal \in 0 .. MaxTableTotal :
        /\ hands = [p \in Players |-> IF p = ai THEN hand ELSE <<>>]
        /\ aiLoop = [isProcessing |-> TRUE, pc |-> "play", ai |-> ai, tableTotal |-> tableTotal]
        /\ sharedCall = [pc |-> "idle", card |-> 0, threw |-> FALSE]
        /\ roundState = newRoundState
        /\ players = [p \in Players |-> [money_cents |-> STARTING_MONEY, status |-> "active"]]
        /\ room = [phase |-> "playing",
                   turn_player_id |-> ai,
                   table_total |-> tableTotal,
                   pot_cents |-> 0,
                   starting_player_index |-> Human,
                   current_round |-> 1]
        /\ roundEndTimers = 0
        /\ store = noRows
        /\ clients = noClients

\* const cardToPlay = aiPlayer.chooseCard(tableTotal)
chooseCardCall ==
    /\ sharedCall.pc = "idle"
    /\ IF hands[aiLoop.ai] = <<>>
       THEN sharedCall' = [sharedCall EXCEPT !.pc = "returned", !.threw = TRUE]
       ELSE \E cardToPlay \in chooseCard(aiLoop.ai, hands[aiLoop.ai], aiLoop.tableTotal) :
               sharedCall' = [sharedCall EXCEPT !.pc = "returned", !.card = cardToPlay]
    /\ UNCHANGED <<room, players, roundState, hands, aiLoop, roundEndTimers, store, clients>>

SpecChooseCard == InitChooseCard /\ [][chooseCardCall]_vars

---------------------------------------------------------------------------
(* The playing phase of a round to its end: four players dealt from a      *)
(* shuffled deck, the betting completed by the human with every bet at the *)
(* minimum, the human playing cards of its hand.                           *)

\* the card plays a player is followed for: one more than a 4-card hand
MaxCardPlays == 5

InitPlaying ==
    \E multiplier \in Multipliers, offset \in 0 .. MaxOffset, startingPlayer \in Players :
        LET pl == [p \in Players |-> [money_cents |-> STARTING_MONEY - MIN_BET,
                                      status |-> "active"]]
            dealt == dealHands(seatList(Players, 0),
                               shuffleArray(createDeck, multiplier, offset),
                               CARDS_PER_PLAYER_4, [p \in Players |-> <<>>])
            rs == [newRoundState EXCEPT
                        !.bets_json = [p \in Players |-> MIN_BET],
                        !.has_raised_json = [p \in Players |-> p = Human],
                        !.has_bet_json = [p \in Players |-> TRUE],
                        !.finalized_json = [p \in Players |-> TRUE],
                        !.log_json.bet = [p \in Players |-> 1],
                        !.log_json.finalize = [p \in Players |-> 1]]
            rm == [phase |-> "betting",
                   turn_player_id |-> Human,
                   table_total |-> 0,
                   pot_cents |-> MAX_PLAYERS * MIN_BET,
                   starting_player_index |-> startingPlayer,
                   current_round |-> 1]
            t == transitionToPlaying(rm, pl, rs)
        IN /\ players = pl
           /\ hands = dealt.hands
           /\ room = t.room
           /\ roundState = t.roundState
           /\ aiLoop = idle
           /\ roundEndTimers = 0
           /\ store = noRows
           /\ sharedCall = noCall
           /\ clients = noClients

\* a click on one of the cards shown, the cards of the human's hand
handleHeldCardClick ==
    \E i \in DOMAIN hands[Human] : humanCardPlay(hands[Human][i], MaxCardPlays)

NextPlaying ==
    \/ handleHeldCardClick
    \/ handleAIRoundEnd
    \/ processAITurn
    \/ getGameState
    \/ executeAIPlayTurnWithin(MaxCardPlays)
    \/ executeAIRoundEnd

SpecPlaying == InitPlaying /\ [][NextPlaying]_vars

---------------------------------------------------------------------------
(* Properties                                                              *)

totalMoney(pl) == SumOver([p \in Players |-> pl[p].money_cents], Players)

\* the number of log entries of a kind
entries(log, kind) == SumOver(log[kind], Players)

\* the step is a call of endRound: it appends a round_end entry
roundEnds ==
    entries(roundState'.log_json, "round_end") > entries(roundState.log_json, "round_end")

RECURSIVE gcd(_, _)
gcd(a, b) == IF b = 0 THEN a ELSE gcd(b, a % b)

\* floor(pot * x / t) in exact arithmetic
exactFloor(pot, x, t) == LET g == gcd(x, t) IN (pot * (x \div g)) \div (t \div g)

\* C1: in every reachable state the players' money plus the pot is the money
\* the players started with, and every call of endRound leaves the pot at 0.
C1_MoneyConserved ==
    /\ [](totalMoney(players) + room.pot_cents = MAX_PLAYERS * STARTING_MONEY)
    /\ [][roundEnds => room'.pot_cents = 0]_vars

\* a round has ended with the pot paid out: a survivor holds more than the stake
C1_Witness ==
    /\ room.phase = "round_end"
    /\ room.pot_cents = 0
    /\ entries(roundState.log_json, "round_end") = 1
    /\ \E p \in Players : players[p].money_cents > STARTING_MONEY

\* C2: whatever the pot and the committed bets, endRound credits every
\* survivor a share >= 0 and the shares sum exactly to the pot it found.
C2_SharesSumToPot ==
    [][roundEnds =>
        /\ \A p \in Players : players'[p].money_cents >= players[p].money_cents
        /\ totalMoney(players') = totalMoney(players) + room.pot_cents]_vars

\* the equal split: the survivors bet nothing and share the eliminated
\* player's stake, the last of them taking the remainder
C2_Witness ==
    /\ room.phase = "round_end"
    /\ roundState.log_json.round_end[Human] = 1
    /\ roundState.bets_json[Human] = STARTING_MONEY
    /\ \A p \in AIs : roundState.bets_json[p] = 0
    /\ players[1].money_cents = STARTING_MONEY + 33333
    /\ players[2].money_cents = STARTING_MONEY + 33333
    /\ players[3].money_cents = STARTING_MONEY + 33334

\* C3: endRound credits every survivor but the last in iteration order
\* exactly floor(pot * bet / totalSurvivorBets), or floor(pot / survivors)
\* when the survivors bet nothing, and credits the last the rest of the pot.
C3_WeightedShares ==
    [][\A e \in Players :
        roundState'.log_json.round_end[e] > roundState.log_json.round_end[e] =>
            LET survivors == activeSeats(players) \ {e}
                last == MaxOf(survivors)
                pot == room.pot_cents
                totalSurvivorBets == SumOver(roundState.bets_json, survivors)
                due == [x \in survivors |->
                            IF totalSurvivorBets = 0 THEN pot \div Cardinality(survivors)
                            ELSE exactFloor(pot, roundState.bets_json[x], totalSurvivorBets)]
            IN \A x \in survivors :
                    players'[x].money_cents - players[x].money_cents =
                        IF x = last THEN pot - SumOver(due, survivors \ {last})
                        ELSE due[x]]_vars

\* C4: once a player's finalize has succeeded, a second finalize by the same
\* player changes nothing: no second finalize entry in the log and no change
\* of the finalized flags.
C4_SecondFinalizeRejected ==
    [][\A p \in Players :
        roundState.finalized_json[p] =>
            /\ roundState'.log_json.finalize[p] = roundState.log_json.finalize[p]
            /\ roundState'.finalized_json[p]]_vars

\* C5: a finalized player takes no further betting action: until the round
\* ends the player's committed bet and balance do not change and no bet,
\* call or all-in of the player is logged.
C5_FinalizedPlayerCannotBet ==
    [][\A p \in Players :
        (roundState.finalized_json[p] /\ ~roundEnds) =>
            /\ roundState'.bets_json[p] = roundState.bets_json[p]
            /\ players'[p].money_cents = players[p].money_cents
            /\ betEntries(roundState'.log_json, p) = betEntries(roundState.log_json, p)]_vars

\* C6: a betting action (bet, call, all-in, finalize) is accepted only from
\* the player who holds the turn and only in the betting phase.
C6_BettingOnlyOnTurn ==
    [][\A p \in Players :
        (\/ betEntries(roundState'.log_json, p) # betEntries(roundState.log_json, p)
         \/ roundState'.log_json.finalize[p] # roundState.log_json.finalize[p]) =>
            /\ room.turn_player_id = p
            /\ room.phase = "betting"]_vars

\* C7: a card play is accepted only if the player holds a card of that
\* value, and an accepted play takes exactly one card out of the player's hand.
C7_CardMustBeHeld ==
    [][\A p \in Players :
        roundState'.log_json.play_card[p] # roundState.log_json.play_card[p] =>
            /\ hands[p] # <<>>
            /\ Len(hands'[p]) = Len(hands[p]) - 1]_vars

\* C8: a card play is accepted only from the player who holds the turn and
\* only in the playing phase; any other play leaves table_total unchanged.
C8_PlayOnlyOnTurnInPlaying ==
    [][(\/ room'.table_total # room.table_total
        \/ roundState'.played_count # roundState.played_count) =>
            /\ room.phase = "playing"
            /\ roundState'.log_json.play_card[room.turn_player_id] =
                    roundState.log_json.play_card[room.turn_player_id] + 1]_vars

\* C9: once a card play has brought table_total to the bust threshold no
\* further card play is accepted in that round, and at most one player is
\* eliminated in the round.
C9_BustEndsRound ==
    /\ [][room.table_total >= BUST_THRESHOLD =>
            /\ roundState'.played_count = roundState.played_count
            /\ room'.table_total = room.table_total]_vars
    /\ [](entries(roundState.log_json, "round_end") <= 1)

\* C10: table_total is 0 until a card is played, never decreases and changes
\* only by a card play; the round reaches round_end only after a card play
\* has brought table_total to the bust threshold.
C10_TableTotalMonotone ==
    /\ [](roundState.played_count = 0 => room.table_total = 0)
    /\ [][/\ room'.table_total >= room.table_total
          /\ room'.table_total # room.table_total =>
                /\ roundState'.played_count = roundState.played_count + 1
                /\ entries(roundState'.log_json, "play_card") =
                        entries(roundState.log_json, "play_card") + 1
          /\ (room'.phase = "round_end" /\ room.phase # "round_end") =>
                /\ room.table_total >= BUST_THRESHOLD
                /\ roundState.played_count > 0]_vars

\* a round that ended on a bust after betting and card plays
C10_Witness ==
    /\ room.phase = "round_end"
    /\ room.table_total >= BUST_THRESHOLD
    /\ roundState.played_count >= 2
    /\ entries(roundState.log_json, "bet") > 0
    /\ entries(roundState.log_json, "round_end") = 1

\* C11: in every reachable state whose phase is playing, every active
\* player's finalized flag is true.
C11_PlayingOnlyAfterAllFinalized ==
    room.phase = "playing" => \A p \in activeSeats(players) : roundState.finalized_json[p]

\* the playing phase, entered from betting, with cards played in it
C11_Witness ==
    /\ room.phase = "playing"
    /\ \A p \in Players : roundState.log_json.finalize[p] >= 1
    /\ roundState.played_count >= 2
    /\ room.pot_cents > 0

\* the play order resolved from the committed bets: seat order from
\* starting_player_index with the highest bettor moved to one end
moveTo(order, hb, position) ==
    IF hb = -1 THEN order
    ELSE IF position = "first" THEN <<hb>> \o SelectSeq(order, LAMBDA s : s # hb)
    ELSE SelectSeq(order, LAMBDA s : s # hb) \o <<hb>>

playOrders ==
    {moveTo(getPlayersInTurnOrder(players, room.starting_player_index),
            highestBettorId(players, roundState.bets_json), position) :
        position \in {"first", "last"}}

\* the player after p in the order, wrapping around
successor(order, p) ==
    LET i == CHOOSE k \in 1 .. Len(order) : order[k] = p
    IN order[(i % Len(order)) + 1]

\* the step is an accepted card play
cardPlayed == roundState'.played_count = roundState.played_count + 1

\* C12: after a non-busting card play in the playing phase the turn passes
\* to the next player of the resolved play order, wrapping around; a highest
\* bettor placed last plays no card before every other active player has.
C12_TurnsFollowPlayOrder ==
    [][(room.phase = "playing" /\ cardPlayed /\ room'.table_total < BUST_THRESHOLD) =>
        /\ \E order \in playOrders :
                room'.turn_player_id = successor(order, room.turn_player_id)
        /\ \A p \in Players :
                (/\ roundState.log_json.play_order[p] > 0
                 /\ roundState'.log_json.play_card[p] > roundState.log_json.play_card[p]) =>
                    \A q \in activeSeats(players) \ {p} :
                        roundState.log_json.play_card[q] > 0]_vars

\* the step completes the betting phase
bettingCompletes == room.phase = "betting" /\ room'.phase # "betting"

\* C13: when betting completes with a highest committed bet > 0 the round
\* waits for the highest bettor's choice of first or last: the step that
\* completes betting fixes no play order and does not open the playing
\* phase, in which card plays are accepted.
C13_WaitsForPositionChoice ==
    [][(/\ bettingCompletes
        /\ highestBettorId(players', roundState'.bets_json) # -1) =>
            /\ room'.phase # "playing"
            /\ entries(roundState'.log_json, "play_order") =
                    entries(roundState.log_json, "play_order")]_vars

\* the active players who hold the highest committed bet, when it is > 0
holders(pl, bets) ==
    {p \in activeSeats(pl) :
        /\ bets[p] > 0
        /\ \A q \in activeSeats(pl) : bets[q] <= bets[p]}

\* C14: when betting completes, the position privilege goes to the first
\* player in seat order among those who share the highest committed bet:
\* only that player is named in a play_order entry, and the first turn is
\* the head of the seat order with that player moved to the end.
C14_FirstHighestBettorWins ==
    [][(bettingCompletes /\ holders(players', roundState'.bets_json) # {}) =>
        LET tied == holders(players', roundState'.bets_json)
            h == CHOOSE p \in tied : \A q \in tied : p <= q
            seats == getPlayersInTurnOrder(players', room.starting_player_index)
            order == SelectSeq(seats, LAMBDA s : s # h) \o <<h>>
        IN /\ room'.turn_player_id = order[1]
           /\ \A p \in Players \ {h} :
                roundState'.log_json.play_order[p] = roundState.log_json.play_order[p]]_vars

\* the first of several players with the same highest bet was moved last
C14_Witness ==
    /\ room.phase = "playing"
    /\ roundState.played_count = 0
    /\ \E p \in Players :
        /\ roundState.log_json.play_order[p] = 1
        /\ p \in holders(players, roundState.bets_json)
        /\ \E q \in holders(players, roundState.bets_json) : q > p

\* the first seat of S met in seat order beginning at start, wrapping
firstFrom(S, start) ==
    CHOOSE p \in S :
        \A q \in S : (p - start + MAX_PLAYERS) % MAX_PLAYERS
                        <= (q - start + MAX_PLAYERS) % MAX_PLAYERS

\* C15: a round that starts gives the first turn to the first active player
\* found in seat order beginning at starting_player_index, wrapping, also
\* when the seat at starting_player_index is not an active player's.
C15_InitialTurn ==
    [][room'.phase = "betting" /\ room.phase # "betting" =>
        room'.turn_player_id =
            firstFrom(activeSeats(players'), room.starting_player_index)]_vars

\* the step is a betting action of p that was accepted
betAccepted(p) ==
    \/ betEntries(roundState'.log_json, p) # betEntries(roundState.log_json, p)
    \/ roundState'.log_json.finalize[p] # roundState.log_json.finalize[p]

\* the first seat of S met in seat order after seat p, wrapping, p itself last
nextAfter(S, p) == firstFrom(S, (p + 1) % MAX_PLAYERS)

\* C16: when a player's betting turn ends on an accepted action without
\* completing the betting phase, the turn passes to the next active,
\* non-finalized player in seat order after that player, wrapping; the turn
\* holder of the betting phase is always an active, non-finalized player.
C16_BettingTurnAdvance ==
    /\ [][\A p \in Players :
            (/\ betAccepted(p)
             /\ room'.phase = "betting"
             /\ aiLoop'.pc # "finalize") =>
                LET open == {q \in activeSeats(players') : ~roundState'.finalized_json[q]}
                IN room'.turn_player_id = nextAfter(open, p)]_vars
    /\ [](room.phase = "betting" =>
            /\ players[room.turn_player_id].status = "active"
            /\ ~roundState.finalized_json[room.turn_player_id])

\* p has called and has not been finalized since
callPending(p) ==
    roundState.log_json.call[p] > 0 /\ ~roundState.finalized_json[p]

\* C17: a successful call is followed at once by the caller's finalize:
\* while a player has called and is not yet finalized, no other player's
\* betting action is accepted and the caller makes no further bet, call or
\* all-in.
C17_CallThenFinalize ==
    [][\A p \in Players :
        callPending(p) =>
            /\ \A q \in Players \ {p} : ~betAccepted(q)
            /\ betEntries(roundState'.log_json, p) = betEntries(roundState.log_json, p)]_vars

\* C18: within a round no step lowers a player's committed bet: every bet,
\* call, all-in and finalize leaves each bets_json entry equal or larger.
C18_CommittedBetNeverDecreases ==
    [][room'.current_round = room.current_round =>
        \A p \in Players : roundState'.bets_json[p] >= roundState.bets_json[p]]_vars

\* a player who has bet, called up to a higher bet and finalized
C18_Witness ==
    \E p \in Players :
        /\ roundState.log_json.bet[p] >= 1
        /\ roundState.log_json.call[p] >= 1
        /\ roundState.log_json.finalize[p] >= 1
        /\ roundState.bets_json[p] >= 2 * MIN_BET

\* processBet rejects the request of p and leaves the objects as they were
betRejectedCleanly(p, request) ==
    LET r == processBet(room, players, roundState, p, request[1], request[2])
    IN ~r.success => (r.room = room /\ r.players = players /\ r.roundState = roundState)

\* processCardPlay rejects the play of p and leaves the objects as they were
playRejectedCleanly(p, cardValue) ==
    LET r == processCardPlay(room, players, roundState, p, cardValue)
    IN ~r.success => (r.room = room /\ r.roundState = roundState)

\* C19: in every position, a call of processBet or processCardPlay that
\* returns success = false, whoever the player and whatever the action,
\* amount or card, leaves the balances, the pot, the committed bets, the
\* flags, table_total, the turn holder and the event log as they were.
C19_RejectedActionsMutateNothing ==
    \A p \in Players :
        /\ \A request \in BetRequests : betRejectedCleanly(p, request)
        /\ \A cardValue \in Cards : playRejectedCleanly(p, cardValue)

\* a position, reached by an accepted request, in which requests are
\* rejected for each reason: inactive player, no money to go all-in,
\* insufficient funds for a bet and for a call, no bet before finalize,
\* below the minimum, not the turn holder
C19_Witness ==
    /\ requestsMade = 1
    /\ \E p \in Players : players[p].status = "spectator"
    /\ \E p \in activeSeats(players) :
        ~processBet(room, players, roundState, p, "all-in", 0).success
    /\ \E p \in activeSeats(players) :
        /\ players[p].money_cents = MIN_BET
        /\ ~processBet(room, players, roundState, p, "bet", 20000).success
        /\ ~processBet(room, players, roundState, p, "call", 0).success
    /\ \E p \in activeSeats(players) :
        /\ ~roundState.has_bet_json[p]
        /\ ~processBet(room, players, roundState, p, "finalize", 0).success
    /\ \E p \in activeSeats(players) :
        /\ roundState.has_bet_json[p]
        /\ ~processBet(room, players, roundState, p, "finalize", 0).success
    /\ \E p \in activeSeats(players) :
        ~processCardPlay(room, players, roundState, p, 3).success

\* C20: in shared mode a bet, a call or an all-in changes the balance, the
\* pot and the committed bet as one unit: neither the store, as another
\* participant reads it, nor the client ever shows money that has left a
\* balance without being in the pot, or a pot that the committed bets do
\* not account for, whether or not a store update fails
C20_BetsApplyAtomically ==
    /\ SumOver(store.money_cents, Players) + store.pot_cents = MAX_PLAYERS * STARTING_MONEY
    /\ store.pot_cents = SumOver(store.bets_json, Players)
    /\ totalMoney(players) + room.pot_cents = MAX_PLAYERS * STARTING_MONEY
    /\ room.pot_cents = SumOver(roundState.bets_json, Players)

\* C21: no update of one participant is lost to another's: once the calls of
\* both have returned and none threw, the store holds every finalized flag a
\* call set, every participant's committed bet, and a pot made of all of them
C21_NoLostUpdates ==
    (\A c \in Clients : clients[c].pc = "idle" /\ ~clients[c].threw)
        => /\ \A c \in Clients : clients[c].finalized => store.finalized_json[c]
           /\ \A c \in Clients : store.bets_json[c] = clients[c].paid
           /\ store.pot_cents = SumOver([c \in Clients |-> clients[c].paid], Clients)

\* C22: the host has at most one bot decision in flight, and a bot's turn
\* is acted on: once the bot runner has run while the host's room shows a
\* bot holding the turn, exactly one decision for it is in flight
C22_SingleFlightBotTurns ==
    /\ clients[HOST].botTurns <= 1
    /\ (clients[HOST].ticks > 0 /\ clients[HOST].room.turn_player_id \in Bots)
           => clients[HOST].botTurns = 1

\* C23: a bet of an active player is accepted only if its amount is one of
\* 10000, 20000, 50000 or the player's whole balance, and is within the
\* balance; with a balance of 5000 a bet of 10000 fails for insufficient
\* funds while all-in is accepted, commits exactly 5000 and leaves 0; all-in
\* with a balance of 0 fails; a result is a failure exactly when it has an
\* error
C23_BetValidation ==
    \A p \in activeSeats(players) :
        LET money == players[p].money_cents
            allIn == processBet(room, players, roundState, p, "all-in", 0)
        IN /\ \A request \in BetRequests :
                LET r == processBet(room, players, roundState, p, request[1], request[2])
                    error == betError(players, roundState, p, request[1], request[2])
                IN /\ r.success <=> error = "none"
                   /\ (request[1] = "bet" /\ r.success)
                        => /\ request[2] \in {10000, 20000, 50000} \/ request[2] = money
                           /\ request[2] <= money
                           /\ r.players[p].money_cents = money - request[2]
           /\ money = 5000
                => /\ ~processBet(room, players, roundState, p, "bet", 10000).success
                   /\ betError(players, roundState, p, "bet", 10000) = "Insufficient funds"
                   /\ allIn.success
                   /\ allIn.roundState.bets_json[p] = roundState.bets_json[p] + 5000
                   /\ allIn.room.pot_cents = room.pot_cents + 5000
                   /\ allIn.players[p].money_cents = 0
           /\ money = 0
                => /\ ~allIn.success
                   /\ betError(players, roundState, p, "all-in", 0) = "No money to go all-in"

\* an all-in of a balance of 5000 has been applied, and another active
\* player holds 5000, which a bet of 10000 exceeds
C23_Witness ==
    /\ requestsMade = 1
    /\ \E p \in activeSeats(players) :
        /\ players[p].money_cents = 0
        /\ roundState.bets_json[p] \in {5000, 55000}
        /\ roundState.log_json.bet[p] = 1
    /\ \E p \in activeSeats(players) :
        /\ players[p].money_cents = 5000
        /\ ~processBet(room, players, roundState, p, "bet", 10000).success

\* C24: finalize of an active player fails if the player has made no bet,
\* call or all-in in the round, and fails if the committed bet is below 10000
\* while the balance is positive; otherwise it is accepted and changes
\* nothing but that player's finalized flag and the log entry of it
C24_FinalizePreconditions ==
    \A p \in activeSeats(players) :
        LET r == processBet(room, players, roundState, p, "finalize", 0)
            error == betError(players, roundState, p, "finalize", 0)
            noAction == ~roundState.has_bet_json[p]
            belowMinimum == roundState.bets_json[p] < 10000 /\ players[p].money_cents > 0
        IN /\ noAction => ~r.success /\ error = "You must place at least one bet before finalizing."
           /\ (~noAction /\ belowMinimum)
                => ~r.success /\ error = "Minimum bet is $100. Please bet or go all-in."
           /\ (~noAction /\ ~belowMinimum)
                => /\ r.success
                   /\ r.room = room
                   /\ r.players = players
                   /\ r.roundState = [roundState EXCEPT
                                         !.finalized_json[p] = TRUE,
                                         !.log_json.finalize[p] = @ + 1]

\* a finalize has been accepted from a player whose committed bet is below
\* the minimum with nothing left to bet, while another active player has
\* not acted and a third has a bet below the minimum and money left
C24_Witness ==
    /\ requestsMade = 1
    /\ \E p \in activeSeats(players) :
        /\ roundState.finalized_json[p]
        /\ roundState.log_json.finalize[p] = 1
        /\ roundState.bets_json[p] < 10000
        /\ players[p].money_cents = 0
    /\ \E p \in activeSeats(players) : ~roundState.has_bet_json[p]
    /\ \E p \in activeSeats(players) :
        /\ roundState.has_bet_json[p]
        /\ roundState.bets_json[p] < 10000
        /\ players[p].money_cents > 0

\* C25: isBettingComplete returns true exactly when every active player is
\* among the players whose finalized flag is true, for any set of active
\* players and any finalized map, a missing one having no such player; the
\* phase has moved on only where it returned true
C25_BettingCompleteIffAllFinalized ==
    LET finalized == roundState.finalized_json
        flagged == {p \in Players : \E q \in DOMAIN finalized : q = p /\ finalized[q] = TRUE}
    IN /\ isBettingComplete(players, finalized) <=> activeSeats(players) \subseteq flagged
       /\ room.phase = "playing" => activeSeats(players) \subseteq flagged

\* betting was found complete with two active players finalized, while a
\* spectator has no entry in the finalized map
C25_Witness ==
    /\ room.phase = "playing"
    /\ Cardinality(activeSeats(players)) = 2
    /\ \E p \in Players \ activeSeats(players) : p \notin DOMAIN roundState.finalized_json
    /\ \E p \in Players \ activeSeats(players) :
        p \in DOMAIN roundState.finalized_json /\ ~roundState.finalized_json[p]

\* C26: endRound leaves the pot at 0 and starting_player_index at the
\* previous value plus one modulo 4; the distribution does not change the
\* balance of the eliminated player, nor give anything to a player who is
\* not active
C26_RoundEndBookkeeping ==
    [][\A e \in Players :
          roundState'.log_json.round_end[e] = roundState.log_json.round_end[e] + 1
              => /\ room'.pot_cents = 0
                 /\ room'.starting_player_index = (room.starting_player_index + 1) % 4
                 /\ players'[e] = players[e]
                 /\ \A p \in Players : players[p].status # "active" => players'[p] = players[p]
                 /\ \A p \in Players : players'[p].money_cents >= players[p].money_cents]_vars

\* a round has ended with the starting index wrapped from 3 to 0, the pot
\* emptied into the balances, and a spectator still without money
C26_Witness ==
    /\ room.phase = "round_end"
    /\ room.starting_player_index = 0
    /\ room.pot_cents = 0
    /\ roundState.log_json.round_end[0] = 1
    /\ players[MAX_PLAYERS - 1] = [money_cents |-> 0, status |-> "spectator"]
    /\ players[1].money_cents > STARTING_MONEY
    /\ players[0].money_cents < STARTING_MONEY

\* C27: the session does not stay in round_end: while the phase is round_end
\* a round-end handler is still on its way to the distribution and the
\* start of the next round, or exactly one player is left with money and
\* the game is over
C27_SessionProgress ==
    room.phase = "round_end"
        => \/ roundEndTimers > 0
           \/ aiLoop.pc = "roundEnd"
           \/ Cardinality({p \in Players : players[p].money_cents > 0}) = 1

\* the players with both money and the status active
qualifying(pl) == {p \in Players : pl[p].money_cents > 0 /\ pl[p].status = "active"}

\* C28: startNewRound signals game over exactly when fewer than 2 players
\* have both money and the status active, and then names the one such
\* player, if there is one, as winner; a round start deals cards or changes
\* the room, the players or the round state only with 2 or more such players
C28_RoundStartGameOver ==
    /\ [](/\ startNewRoundResult(players).gameOver <=> Cardinality(qualifying(players)) < 2
          /\ (startNewRoundResult(players).gameOver /\ qualifying(players) # {})
                => qualifying(players) = {startNewRoundResult(players).winner})
    /\ [][Cardinality(qualifying(players)) < 2
            => UNCHANGED <<room, players, roundState, hands>>]_vars

\* a round start with one qualifying player, named winner over a spectator
\* that has money and an active player that has none: nothing was dealt
C28_Witness ==
    /\ room.phase = "round_end"
    /\ startNewRoundResult(players).gameOver
    /\ startNewRoundResult(players).winner = 2
    /\ players[2] = [money_cents |-> STARTING_MONEY, status |-> "active"]
    /\ players[0] = [money_cents |-> STARTING_MONEY, status |-> "spectator"]
    /\ players[1] = [money_cents |-> 0, status |-> "active"]
    /\ \A p \in Players : hands[p] = <<>>

\* C29: a player without money at a round start becomes a spectator, and a
\* spectator stays one: no step makes a spectator active, deals a spectator
\* cards, gives a spectator the turn, accepts a bet, call, finalize or card
\* of a spectator, or credits a spectator anything
C29_SpectatorsArePermanent ==
    [][\A p \in Players :
          LET roundStarts == room'.current_round > room.current_round
              accepted(log) == betEntries(log, p) + log.finalize[p] + log.play_card[p]
          IN /\ (roundStarts /\ players[p].money_cents = 0)
                    => players'[p].status = "spectator"
             /\ players[p].status = "spectator" => players'[p].status = "spectator"
             /\ players'[p].status = "spectator"
                    => /\ hands'[p] = hands[p]
                       /\ players'[p].money_cents <= players[p].money_cents
                       /\ accepted(roundState'.log_json) <= accepted(roundState.log_json)
                       /\ (roundStarts \/ room'.turn_player_id # room.turn_player_id)
                            => room'.turn_player_id # p]_vars

\* a round started with seat 3 as a spectator without cards has been
\* played to its end by the other three, and the pot shared among them
C29_Witness ==
    /\ room.phase = "round_end"
    /\ room.current_round = 2
    /\ players[3] = [money_cents |-> 0, status |-> "spectator"]
    /\ hands[3] = <<>>
    /\ roundState.played_count >= 3
    /\ entries(roundState.log_json, "round_end") = 1
    /\ room.pot_cents = 0
    /\ \E p \in AIs : players[p].money_cents > STARTING_MONEY

\* the number of cards of one value in a hand or a deck
cardsOf(cards, value) == Cardinality({i \in DOMAIN cards : cards[i] = value})

\* the cards of all hands together
dealtCards(hs) == SumOver([p \in Players |-> Len(hs[p])], Players)

\* C30: a round start deals 4 cards a player when 3 or more players have
\* money and the status active, and 6 otherwise; every active player gets
\* exactly that many and nobody else gets any; the hands and the deck left
\* over are together the 40 cards, ten of each value 0, 1, 2, 3, so that
\* with four players 16 are dealt and 24 remain.
C30_Dealing ==
    [][roundState'.deck_json # roundState.deck_json
         => LET size == IF Cardinality(qualifying(players)) >= 3 THEN 4 ELSE 6
                deck == roundState'.deck_json
            IN /\ \A p \in Players :
                     Len(hands'[p]) = IF players'[p].status = "active" THEN size ELSE 0
               /\ activeSeats(players') = qualifying(players)
               /\ dealtCards(hands') + Len(deck) = 40
               /\ \A value \in 0 .. 3 :
                     SumOver([p \in Players |-> cardsOf(hands'[p], value)], Players)
                       + cardsOf(deck, value) = 10
               /\ Cardinality(qualifying(players)) = 4
                    => dealtCards(hands') = 16 /\ Len(deck) = 24]_vars

\* four players dealt four cards each out of a shuffled deck, 24 left
C30_Witness ==
    /\ roundState.round_no = 2
    /\ \A p \in Players : players[p].status = "active" /\ Len(hands[p]) = 4
    /\ Len(roundState.deck_json) = 24
    /\ hands[0] = <<0, 1, 2, 3>>

\* C31: dealCards removes and returns exactly the first n cards of the deck
\* and leaves the rest in order; on a deck of fewer than n cards it fails
\* instead of returning a short hand, and the deck is unchanged.
C31_DealFailsOnShortDeck ==
    [][sharedCall'.pc = "returned" /\ sharedCall.pc = "idle"
         => LET deck == roundState.deck_json
                n == sharedCall.count
            IN IF n <= Len(deck)
               THEN /\ ~sharedCall'.threw
                    /\ hands'[Human] = SubSeq(deck, 1, n)
                    /\ roundState'.deck_json = SubSeq(deck, n + 1, Len(deck))
               ELSE /\ sharedCall'.threw
                    /\ hands'[Human] = <<>>
                    /\ roundState'.deck_json = deck]_vars

\* C32: for every personality, non-empty hand and table total, the card
\* chooseCard returns is in the hand; when some card of the hand keeps the
\* total under 10 the returned card is one of those (the lowest of them for
\* the cautious AI), and when none does it is the lowest card of the hand.
C32_SafeCardChoice ==
    (sharedCall.pc = "returned" /\ ~sharedCall.threw)
        => LET hand == hands[aiLoop.ai]
               card == sharedCall.card
               safe == {c \in Range(hand) : aiLoop.tableTotal + c < 10}
           IN /\ hand # <<>>
              /\ card \in Range(hand)
              /\ safe # {} => /\ card \in safe
                              /\ personality(aiLoop.ai) = "cautious" => card = MinOf(safe)
              /\ safe = {} => card = MinOf(Range(hand))

\* the aggressive AI at a total of 7 with two 3s and a 2 has played the 2
C32_Witness ==
    /\ sharedCall.pc = "returned"
    /\ personality(aiLoop.ai) = "aggressive"
    /\ aiLoop.tableTotal = 7
    /\ hands[aiLoop.ai] = <<3, 2, 3>>
    /\ sharedCall.card = 2

\* the hand strength, in hundredths, an AI of this seat needs to call a
\* bet that takes 80% or more of its balance
callThreshold(p) ==
    CASE personality(p) = "cautious" -> 85
      [] personality(p) = "balanced" -> 70
      [] OTHER -> 50

\* C33: on an AI's betting turn where calling would take at least 80% of
\* its balance and its hand strength is not above its personality's
\* threshold, and the AI does not raise, it folds: it keeps its committed
\* bet and no money moves from its balance to the pot.
C33_FoldMovesNoMoney ==
    [][LET p == aiLoop.ai
           callAmount == tableHighestBet(roundState.bets_json) - roundState.bets_json[p]
       IN (/\ aiLoop.pc = "bet"
           /\ aiLoop'.pc # "bet"
           /\ 10 * callAmount >= 8 * players[p].money_cents
           /\ ~strengthAbove(hands[p], aiLoop.tableTotal, callThreshold(p))
           /\ roundState'.log_json.bet[p] = roundState.log_json.bet[p])
          => /\ players'[p].money_cents = players[p].money_cents
             /\ room'.pot_cents = room.pot_cents
             /\ roundState'.bets_json[p] = roundState.bets_json[p]]_vars

\* C34: in shared mode a bot holding the turn in the betting or playing
\* phase is moved by the host's bot runner: once the runner's ticks have
\* fired while the rooms row names a bot as the turn holder, a decision for
\* that bot has been started or its action is in the round's rows.
C34_BotsMoveInSharedMode ==
    LET bot == store.turn_player_id
    IN (/\ bot \in Bots
        /\ clients[HOST].room.phase \in {"betting", "playing"}
        /\ clients[HOST].ticks = MaxTicks)
       => \/ clients[HOST].botTurns > 0
          \/ store.has_bet_json[bot]
          \/ store.finalized_json[bot]

C36_SurvivingNeverLosesMoney ==
    [][\A e \in activeSeats(players) :
        (/\ roundState'.log_json.round_end[e] > roundState.log_json.round_end[e]
         /\ room.pot_cents = SumOver(roundState.bets_json, Players)
         /\ \A p \in activeSeats(players) : roundState.bets_json[p] > 0)
        => \A p \in activeSeats(players) \ {e} :
              players'[p].money_cents >= players[p].money_cents + roundState.bets_json[p]]_vars

\* bets of 10000, 20000, 30000 and 40000, seat 0 eliminated: the survivors
\* are paid 22222, 33333 and 44445 out of the pot of 100000
C36_Witness ==
    /\ room.phase = "round_end"
    /\ roundState.log_json.round_end[Human] = 1
    /\ roundState.bets_json = [p \in Players |-> (p + 1) * MIN_BET]
    /\ players[1].money_cents = STARTING_MONEY - 20000 + 22222
    /\ players[2].money_cents = STARTING_MONEY - 30000 + 33333
    /\ players[3].money_cents = STARTING_MONEY - 40000 + 44445

\* C37: a finalized player has a committed bet of at least 10000 or a
\* balance of 0, and in either case a committed bet above 0; so when the
\* betting is complete every active player's bet, and the highest bet, is
\* above 0.
C37_FinalizedPlayersHaveBet ==
    /\ \A p \in Players :
          roundState.finalized_json[p]
              => /\ roundState.bets_json[p] >= 10000 \/ players[p].money_cents = 0
                 /\ roundState.bets_json[p] > 0
    /\ isBettingComplete(players, roundState.finalized_json)
          => /\ \A p \in activeSeats(players) : roundState.bets_json[p] > 0
             /\ tableHighestBet(roundState.bets_json) > 0

\* the betting is complete with the human all-in, left with a balance of 0,
\* and an AI finalized on a smaller bet
C37_Witness ==
    /\ isBettingComplete(players, roundState.finalized_json)
    /\ room.phase = "playing"
    /\ players[Human].money_cents = 0
    /\ roundState.bets_json[Human] = STARTING_MONEY
    /\ \E p \in AIs : roundState.bets_json[p] = MIN_BET

\* C38: in the playing phase, while the table total is below 10, the turn
\* holder still holds at least one card, so that the round can go on to
\* its bust.
C38_TurnHolderHoldsCard ==
    (room.phase = "playing" /\ room.table_total < 10)
        => hands[room.turn_player_id] # <<>>

\* C39: no AI betting turn is retried forever with a rejected action: when
\* an AI is about to act in the betting phase, at least one of the
\* decisions it can take is accepted by processBet.
C39_AIBetIsAccepted ==
    (aiLoop.pc = "bet" /\ room.phase = "betting")
        => \E decision \in executeAIBet(aiLoop.ai, players, roundState,
                                        hands[aiLoop.ai], aiLoop.tableTotal) :
              processBet(room, players, roundState, aiLoop.ai,
                         IF decision.action = "raise" THEN "bet" ELSE decision.action,
                         decision.amount).success

\* the AI loop has a turn in flight
turnInFlight(loop) ==
    loop.pc \in {"betTurn", "bet", "finalize", "playTurn", "play", "roundEnd"}

\* C40: when an AI turn started by the periodic loop is over, whether or
\* not its action completed the betting or caused a bust, the processing
\* flag is false again, so that the loop can process a later AI turn.
C40_ProcessingFlagReleased ==
    [][(turnInFlight(aiLoop) /\ ~turnInFlight(aiLoop')) => ~aiLoop'.isProcessing]_vars

====
